---------------------------- MODULE Spec2Model ----------------------------
(***************************************************************************)
(* Model of the GRIME2 calibration core: Calib (pixel<->world mapping,     *)
(* search swath, JSON persistence) and FindCalibGrid (bowtie template      *)
(* bank, template matching, move-target search).                           *)
(*                                                                         *)
(* Numbers.  A C++ double is modelled as an integer count of 1/Q pixel     *)
(* (or world unit); Q = 4000, so the model can hold values that the        *)
(* 3-decimal text encoding of Save cannot.  An int is an integer.          *)
(* Divisions whose result is rounded to an int (cvRound) are computed      *)
(* exactly on the rational.                                                *)
(***************************************************************************)
EXTENDS Integers, Sequences, FiniteSets, TLC

VARIABLES
    m_model,               \* Calib::m_model (CalibModel)
    m_imgSize,             \* Calib::m_imgSize
    m_matHomogPixToWorld,  \* Calib::m_matHomogPixToWorld
    m_matHomogWorldToPix,  \* Calib::m_matHomogWorldToPix
    files,                 \* the file system: path -> file content
    ptOut,                 \* the caller's output point of PixelToWorld / WorldToPixel
    ret,                   \* the last call on Calib: operation, status, what it was given
    m_templates,           \* FindCalibGrid::m_templates
    m_matchItems,          \* FindCalibGrid::m_matchItems
    m_matchSpace,          \* FindCalibGrid::m_matchSpace (its size)
    m_matchSpaceSmall,     \* FindCalibGrid::m_matchSpaceSmall (its size)
    m_rectLeftMoveSearch,  \* FindCalibGrid::m_rectLeftMoveSearch
    m_rectRightMoveSearch, \* FindCalibGrid::m_rectRightMoveSearch
    m_itemArray,           \* FindCalibGrid::m_itemArray
    ptsFound,              \* the caller's output points of FindMoveTargets
    gret                   \* the last call on FindCalibGrid

calibVars == <<m_model, m_imgSize, m_matHomogPixToWorld, m_matHomogWorldToPix>>
calibAll == <<m_model, m_imgSize, m_matHomogPixToWorld, m_matHomogWorldToPix,
              files, ptOut, ret>>
gridVars == <<m_templates, m_matchItems, m_matchSpace, m_matchSpaceSmall, m_rectLeftMoveSearch,
              m_rectRightMoveSearch, m_itemArray>>
gridAll == <<m_templates, m_matchItems, m_matchSpace, m_matchSpaceSmall, m_rectLeftMoveSearch,
             m_rectRightMoveSearch, m_itemArray, ptsFound, gret>>
vars == <<m_model, m_imgSize, m_matHomogPixToWorld, m_matHomogWorldToPix,
          files, ptOut, ret, m_templates, m_matchItems, m_matchSpace, m_matchSpaceSmall,
          m_rectLeftMoveSearch, m_rectRightMoveSearch, m_itemArray, ptsFound, gret>>

-----------------------------------------------------------------------------
(* Numeric helpers *)

\* units of a double per 1.0
Q == 4 * 1000
\* units of a double per 0.001 (one step of the 3-decimal text encoding)
Milli == Q \div 1000

IntMin == -2147483647 - 1

Abs(a) == IF a < 0 THEN -a ELSE a
Max(a, b) == IF a > b THEN a ELSE b
Min(a, b) == IF a < b THEN a ELSE b

\* n/d rounded to the nearest integer, ties to the even one (d # 0)
RoundDiv(n, d) ==
    LET nn == IF d < 0 THEN -n ELSE n
        dd == Abs(d)
        f  == nn \div dd
        r  == nn % dd
    IN  IF 2 * r < dd THEN f
        ELSE IF 2 * r > dd THEN f + 1
        ELSE IF f % 2 = 0 THEN f ELSE f + 1

\* a*num/den rounded to the nearest integer, without forming a*num
MulDiv(a, num, den) ==
    LET nn == IF den < 0 THEN -num ELSE num
        dd == Abs(den)
    IN  (a \div dd) * nn + RoundDiv((a % dd) * nn, dd)

\* cvRound of a double
cvRound(v) == RoundDiv(v, Q)

\* an int converted to double
ToDouble(i) == i * Q

Pt(x, y) == [x |-> x, y |-> y]
Size(w, h) == [width |-> w, height |-> h]
Rect(x, y, w, h) == [x |-> x, y |-> y, width |-> w, height |-> h]
LineEnds(top, bot) == [top |-> top, bot |-> bot]

GC_OK == "GC_OK"
GC_ERR == "GC_ERR"
GC_EXCEPT == "GC_EXCEPT"
GC_WARN == "GC_WARN"


-----------------------------------------------------------------------------
(* Constants of headers that the calibration code uses *)

\* gc_types.h: half the side of a move-search box, in pixels (scaled down
\* with the model's images)
GC_BOWTIE_TEMPLATE_DIM == 3

-----------------------------------------------------------------------------
(* OpenCV primitives used by Calib *)

Throw == [empty |-> TRUE, thrown |-> TRUE]
EmptyMat == [empty |-> TRUE, thrown |-> FALSE]

Xs(pts) == {pts[i].x : i \in 1..Len(pts)}
Ys(pts) == {pts[i].y : i \in 1..Len(pts)}
SetMin(S) == CHOOSE a \in S : \A b \in S : a <= b
SetMax(S) == CHOOSE a \in S : \A b \in S : a >= b

\* the index of the first point of src whose coordinate (x when isX) is v
FirstAt(src, isX, v) ==
    CHOOSE i \in 1..Len(src) :
        /\ (IF isX THEN src[i].x ELSE src[i].y) = v
        /\ \A j \in 1..(i - 1) : (IF isX THEN src[j].x ELSE src[j].y) # v

\* the map of one coordinate, v |-> d0 + (v - s0) * num / den, through the
\* correspondences of the least and of the greatest source coordinate
AxisFit(src, dst, isX) ==
    LET S  == IF isX THEN Xs(src) ELSE Ys(src)
        i  == FirstAt(src, isX, SetMin(S))
        j  == FirstAt(src, isX, SetMax(S))
        c(p) == IF isX THEN p.x ELSE p.y
    IN  [s0 |-> c(src[i]), d0 |-> c(dst[i]),
         num |-> c(dst[j]) - c(dst[i]), den |-> c(src[j]) - c(src[i])]

\* cv::findHomography( src, dst ), method 0.  Fewer than 4 correspondences:
\* cv::Exception.  A point set with no spread in x or in y (runKernel's
\* degeneracy test): the empty matrix.  Otherwise the fitted matrix, exact
\* for correspondences that are an axis-wise affine map.
findHomography(src, dst) ==
    IF Len(src) < 4 THEN Throw
    ELSE IF \/ Cardinality(Xs(src)) = 1 \/ Cardinality(Ys(src)) = 1
            \/ Cardinality(Xs(dst)) = 1 \/ Cardinality(Ys(dst)) = 1
         THEN EmptyMat
    ELSE [empty |-> FALSE, thrown |-> FALSE,
          x |-> AxisFit(src, dst, TRUE), y |-> AxisFit(src, dst, FALSE)]

ApplyAxis(f, v) == f.d0 + MulDiv(v - f.s0, f.num, f.den)

\* cv::perspectiveTransform of one point by a non-empty matrix
perspectiveTransform(p, H) == Pt(ApplyAxis(H.x, p.x), ApplyAxis(H.y, p.y))

-----------------------------------------------------------------------------
(* Calib *)

\* CalibModel::clear() and the state of a constructed CalibModel
EmptyModel ==
    [gridSize |-> Size(0, 0), pixelPoints |-> <<>>, worldPoints |-> <<>>,
     moveSearchRegionLft |-> Rect(0, 0, 0, 0),
     moveSearchRegionRgt |-> Rect(0, 0, 0, 0),
     searchLines |-> <<>>]

\* cvRound of a double that is not finite (x86 cvtsd2si)
cvRoundNonFinite == IntMin

\* the i-th (0-based) search line of the loop of CalcSearchSwaths
SwathLine(i, topLftX, topLftY, botLftX3, botLftY, widthTop, dBot, height, dyTop) ==
    LET topX == RoundDiv(topLftX + i * Q, Q)
        topY == IF i = 0 THEN cvRound(topLftY)
                ELSE IF height = 0 THEN cvRoundNonFinite
                ELSE RoundDiv(topLftY * 3 * height + i * dyTop, Q * 3 * height)
        botX == IF i = 0 THEN RoundDiv(botLftX3, 3 * Q)
                ELSE RoundDiv(botLftX3 * widthTop + i * dBot, 3 * Q * widthTop)
        botY == IF i = 0 THEN cvRound(botLftY)
                ELSE IF height = 0 THEN cvRoundNonFinite
                ELSE RoundDiv(botLftY * 3 * height + i * dyTop, Q * 3 * height)
    IN  LineEnds(Pt(topX, topY), Pt(botX, botY))

\* Calib::CalcSearchSwaths on model m: the status and the search lines after it
CalcSearchSwaths(m, imgSize) ==
    LET pp == m.pixelPoints
        w  == m.gridSize.width
        h  == m.gridSize.height
    IN  IF \/ pp = <<>> \/ m.worldPoints = <<>>
           \/ Len(pp) # Len(m.worldPoints)
           \/ 2 > w \/ 4 > h
        THEN [status |-> GC_ERR, searchLines |-> m.searchLines]
        ELSE
        LET tl == pp[1]
            tr == pp[w]
            bl == pp[w * (h - 1) + 1]
            br == pp[w * h]
            widthTop == RoundDiv(tr.x - tl.x, 3 * Q)
            dBot     == br.x - bl.x
            height   == RoundDiv((bl.y - tl.y) * 5, 4 * Q)
            topLftX  == tl.x + ToDouble(widthTop)
            topLftY  == tl.y - height * (Q \div 8) + ToDouble(height \div 16)
            botLftX3 == 3 * bl.x + dBot
            botLftY  == Min(bl.y + height * (Q \div 8) + ToDouble(height \div 16),
                            ToDouble(imgSize.height - 1))
            dyTop    == tr.y - tl.y
        IN  [status |-> GC_OK,
             searchLines |->
                [k \in 1..(widthTop + 1) |->
                    SwathLine(k - 1, topLftX, topLftY, botLftX3, botLftY,
                              widthTop, dBot, height, dyTop)]]

\* the move-search box that Calibrate derives from a grid pixel point
MoveSearchRegion(p, imgSize) ==
    Rect(Max(0, cvRound(p.x) - GC_BOWTIE_TEMPLATE_DIM),
         Max(0, cvRound(p.y) - GC_BOWTIE_TEMPLATE_DIM),
         Min(imgSize.width - cvRound(p.x), GC_BOWTIE_TEMPLATE_DIM * 2),
         Min(imgSize.height - cvRound(p.y), GC_BOWTIE_TEMPLATE_DIM * 2))

\* CalibrateArgsInvalid without the test of the grid width
CalibrateArgsInvalid_NoWidthTest(pixelPts, worldPts, gridSize) ==
    \/ Len(pixelPts) # Len(worldPts)
    \/ pixelPts = <<>> \/ worldPts = <<>>
    \/ gridSize.width * gridSize.height # Len(pixelPts)

\* the argument check of Calibrate
CalibrateArgsInvalid(pixelPts, worldPts, gridSize) ==
    \/ Len(pixelPts) # Len(worldPts)
    \/ pixelPts = <<>> \/ worldPts = <<>>
    \/ gridSize.width * gridSize.height # Len(pixelPts)
    \/ 0 >= gridSize.width

\* the status of Calib::PixelToWorld / WorldToPixel given the matrix it uses
TransformStatus(H) == IF H.empty THEN GC_ERR ELSE GC_OK

\* the overlay drawing at the end of Calibrate: the status it leaves
DrawStatus(st, retVal, draw) ==
    IF ~((draw.drawCalib \/ draw.drawMoveROIs \/ draw.drawSearchROI) /\ draw.img # "empty")
    THEN retVal
    ELSE
    LET r1 == IF draw.img \in {"gray", "bgr"} THEN retVal ELSE GC_ERR
        r2 == IF r1 = GC_OK /\ draw.drawSearchROI /\ st.model.searchLines = <<>>
              THEN GC_WARN ELSE r1
        r3 == IF r1 = GC_OK /\ draw.drawCalib
              THEN IF TransformStatus(st.p2w) # GC_OK THEN GC_ERR
                   ELSE TransformStatus(st.w2p)
              ELSE r2
    IN  r3

\* the state of a Calib object as one record
CalibState(model, imgSize, p2w, w2p) ==
    [model |-> model, imgSize |-> imgSize, p2w |-> p2w, w2p |-> w2p]

\* FitHomographies that never assigns the world-to-pixel fit
FitHomographies_NoInverse(st, pixelPts, worldPts) ==
    LET h1 == findHomography(pixelPts, worldPts)
    IN  IF h1.thrown THEN [p2w |-> st.p2w, w2p |-> st.w2p, thrown |-> TRUE]
        ELSE [p2w |-> h1, w2p |-> st.w2p, thrown |-> FALSE]

\* the two homography assignments of Calibrate: the matrices after them and
\* whether one of the fits threw
FitHomographies(st, pixelPts, worldPts) ==
    LET h1 == findHomography(pixelPts, worldPts)
        h2 == findHomography(worldPts, pixelPts)
    IN  IF h1.thrown THEN [p2w |-> st.p2w, w2p |-> st.w2p, thrown |-> TRUE]
        ELSE IF h2.thrown THEN [p2w |-> h1, w2p |-> st.w2p, thrown |-> TRUE]
        ELSE [p2w |-> h1, w2p |-> h2, thrown |-> FALSE]

\* Calib::Calibrate: the object after the call and the returned status
Calibrate(st, pixelPts, worldPts, gridSize, imgSize, draw) ==
    IF CalibrateArgsInvalid(pixelPts, worldPts, gridSize)
    THEN [st |-> st, status |-> GC_ERR]
    ELSE
    LET m1 == [EmptyModel EXCEPT !.gridSize = gridSize,
                                 !.pixelPoints = pixelPts,
                                 !.worldPoints = worldPts]
        fit == FitHomographies(st, pixelPts, worldPts)
    IN  IF fit.thrown
        THEN [st |-> CalibState(m1, imgSize, fit.p2w, fit.w2p), status |-> GC_EXCEPT]
        ELSE
        LET sw == CalcSearchSwaths(m1, imgSize)
            m2 == IF sw.status = GC_OK
                  THEN [m1 EXCEPT
                          !.searchLines = sw.searchLines,
                          !.moveSearchRegionLft = MoveSearchRegion(pixelPts[1], imgSize),
                          !.moveSearchRegionRgt =
                              MoveSearchRegion(pixelPts[gridSize.width], imgSize)]
                  ELSE m1
            st2 == CalibState(m2, imgSize, fit.p2w, fit.w2p)
        IN  [st |-> st2, status |-> DrawStatus(st2, sw.status, draw)]


\* the output point the caller passes to PixelToWorld / WorldToPixel
Unwritten == Pt(-1, -1)

\* Transform without the test for an empty matrix
Transform_NoEmptyTest(H, pt) ==
    [status |-> GC_OK, out |-> IF H.empty THEN pt ELSE perspectiveTransform(pt, H)]

\* Calib::PixelToWorld (H the pixel-to-world matrix) and Calib::WorldToPixel
\* (H the world-to-pixel matrix): the status and the caller's output point
Transform(H, pt) ==
    IF TransformStatus(H) # GC_OK
    THEN [status |-> GC_ERR, out |-> Unwritten]
    ELSE [status |-> GC_OK, out |-> perspectiveTransform(pt, H)]

\* Calib::MoveSearchROI
MoveSearchROI(model, isLeft) ==
    IF isLeft THEN model.moveSearchRegionLft ELSE model.moveSearchRegionRgt

\* numeric_limits< double >::min(), the sentinel coordinate of MoveRefPoint
DoubleMin == 0

\* Calib::MoveRefPoint
MoveRefPoint(model, isLeft) ==
    IF model.pixelPoints = <<>> THEN Pt(DoubleMin, DoubleMin)
    ELSE IF model.gridSize.width * model.gridSize.height # Len(model.pixelPoints)
         THEN Pt(DoubleMin, DoubleMin)
    ELSE IF isLeft THEN model.pixelPoints[1]
         ELSE model.pixelPoints[model.gridSize.width]

-----------------------------------------------------------------------------
(* Calibration files *)

NoFile == [exists |-> FALSE]
Sections == {"PixelToWorld", "points", "MoveSearchRegions", "SearchLines"}

\* a double written with fixed << setprecision( 3 ): its count of thousandths
Fixed3(v) == RoundDiv(v, Milli)
\* a 3-decimal number read back as a double
Parse3(t) == t * Milli

\* the guard of Save and of ModelJsonString
ModelUnsavable(model) ==
    \/ model.pixelPoints = <<>> \/ model.worldPoints = <<>>
    \/ Len(model.pixelPoints) # Len(model.worldPoints)
    \/ 2 > model.gridSize.width \/ 4 > model.gridSize.height
    \/ model.searchLines = <<>>

\* the text that Save writes
SaveFile(st) ==
    [exists |-> TRUE, parseOK |-> TRUE, has |-> Sections,
     imageWidth |-> st.imgSize.width, imageHeight |-> st.imgSize.height,
     columns |-> st.model.gridSize.width, rows |-> st.model.gridSize.height,
     points |-> [i \in 1..Len(st.model.pixelPoints) |->
                    [pixelX |-> Fixed3(st.model.pixelPoints[i].x),
                     pixelY |-> Fixed3(st.model.pixelPoints[i].y),
                     worldX |-> Fixed3(st.model.worldPoints[i].x),
                     worldY |-> Fixed3(st.model.worldPoints[i].y)]],
     Left |-> st.model.moveSearchRegionLft,
     Right |-> st.model.moveSearchRegionRgt,
     lines |-> [i \in 1..Len(st.model.searchLines) |->
                    [topX |-> st.model.searchLines[i].top.x,
                     topY |-> st.model.searchLines[i].top.y,
                     botX |-> st.model.searchLines[i].bot.x,
                     botY |-> st.model.searchLines[i].bot.y]]]

\* paths that an ofstream cannot open
Unwritable == {"/nodir/cal.json"}

\* Calib::Save: the status and the file system after it
Save(st, fs, path) ==
    IF ModelUnsavable(st.model) THEN [status |-> GC_ERR, files |-> fs]
    ELSE IF path \in Unwritable THEN [status |-> GC_ERR, files |-> fs]
    ELSE [status |-> GC_OK, files |-> [fs EXCEPT ![path] = SaveFile(st)]]

\* a double written to a stream with its default precision of 6 significant
\* digits, as its count of 1/100000; for values below 10000
General6(v) ==
    LET t == v * (100000 \div Q)
    IN  IF Abs(v) < 10 * Q THEN t
        ELSE IF Abs(v) < 100 * Q THEN RoundDiv(t, 10) * 10
        ELSE IF Abs(v) < 1000 * Q THEN RoundDiv(t, 100) * 100
        ELSE RoundDiv(t, 1000) * 1000

\* the empty string
NoText == [empty |-> TRUE]

\* Calib::ModelJsonString: the text returned
ModelJsonString(st) ==
    IF ModelUnsavable(st.model) THEN NoText
    ELSE [empty |-> FALSE,
          columns |-> st.model.gridSize.width, rows |-> st.model.gridSize.height,
          points |-> [i \in 1..Len(st.model.pixelPoints) |->
                        [pixelX |-> General6(st.model.pixelPoints[i].x),
                         pixelY |-> General6(st.model.pixelPoints[i].y),
                         worldX |-> General6(st.model.worldPoints[i].x),
                         worldY |-> General6(st.model.worldPoints[i].y)]],
          Left |-> st.model.moveSearchRegionLft,
          Right |-> st.model.moveSearchRegionRgt,
          lines |-> [i \in 1..Len(st.model.searchLines) |->
                        [topX |-> st.model.searchLines[i].top.x,
                         topY |-> st.model.searchLines[i].top.y,
                         botX |-> st.model.searchLines[i].bot.x,
                         botY |-> st.model.searchLines[i].bot.y]]]

\* Calib::Load, the part before the point-count check: the object after
\* reading the file f, and whether reading threw
LoadRead(st, f) ==
    LET s1 == [st EXCEPT !.imgSize = Size(f.imageWidth, f.imageHeight)]
        s2 == [s1 EXCEPT !.model.pixelPoints = <<>>, !.model.worldPoints = <<>>]
        s3 == [s2 EXCEPT
                 !.model.pixelPoints =
                     [i \in 1..Len(f.points) |->
                         Pt(Parse3(f.points[i].pixelX), Parse3(f.points[i].pixelY))],
                 !.model.worldPoints =
                     [i \in 1..Len(f.points) |->
                         Pt(Parse3(f.points[i].worldX), Parse3(f.points[i].worldY))]]
        s4 == [s3 EXCEPT !.model.moveSearchRegionLft = f.Left,
                         !.model.moveSearchRegionRgt = f.Right]
        s5 == [s4 EXCEPT !.model.searchLines = <<>>]
        s6 == [s5 EXCEPT !.model.searchLines =
                 [i \in 1..Len(f.lines) |->
                     LineEnds(Pt(f.lines[i].topX, f.lines[i].topY),
                              Pt(f.lines[i].botX, f.lines[i].botY))]]
    IN  IF ~f.parseOK THEN [st |-> st, thrown |-> TRUE]
        ELSE IF "PixelToWorld" \notin f.has THEN [st |-> s1, thrown |-> TRUE]
        ELSE IF "points" \notin f.has THEN [st |-> s2, thrown |-> TRUE]
        ELSE IF "MoveSearchRegions" \notin f.has THEN [st |-> s3, thrown |-> TRUE]
        ELSE IF "SearchLines" \notin f.has THEN [st |-> s5, thrown |-> TRUE]
        ELSE [st |-> s6, thrown |-> FALSE]

NoDraw == [img |-> "empty", drawCalib |-> FALSE, drawMoveROIs |-> FALSE,
           drawSearchROI |-> FALSE]

\* Load without the point-count check
Load_NoCountCheck(st, f) ==
    IF ~f.exists THEN [st |-> st, status |-> GC_ERR, ranCalibrate |-> FALSE]
    ELSE
    LET rd == LoadRead(st, f)
    IN  IF rd.thrown THEN [st |-> rd.st, status |-> GC_EXCEPT, ranCalibrate |-> FALSE]
        ELSE
        LET s7 == [rd.st EXCEPT !.model.gridSize = Size(f.columns, f.rows)]
            c  == Calibrate(s7, s7.model.pixelPoints, s7.model.worldPoints,
                            s7.model.gridSize, s7.imgSize, NoDraw)
        IN  [st |-> c.st, status |-> c.status, ranCalibrate |-> TRUE]

\* Load that keeps the move-search regions and the search lines of the file
Load_TrustsFile(st, f) ==
    LET l == Load_NoCountCheck(st, f)
        rd == LoadRead(st, f)
    IN  IF l.status = GC_OK
        THEN [l EXCEPT !.st.model.moveSearchRegionLft = rd.st.model.moveSearchRegionLft,
                       !.st.model.moveSearchRegionRgt = rd.st.model.moveSearchRegionRgt,
                       !.st.model.searchLines = rd.st.model.searchLines]
        ELSE l

\* Calib::Load of file f (NoFile when the path does not exist)
Load(st, f) ==
    IF ~f.exists THEN [st |-> st, status |-> GC_ERR, ranCalibrate |-> FALSE]
    ELSE
    LET rd == LoadRead(st, f)
    IN  IF rd.thrown THEN [st |-> rd.st, status |-> GC_EXCEPT, ranCalibrate |-> FALSE]
        ELSE IF f.columns * f.rows # Len(rd.st.model.pixelPoints)
        THEN [st |-> rd.st, status |-> GC_ERR, ranCalibrate |-> FALSE]
        ELSE
        LET s7 == [rd.st EXCEPT !.model.gridSize = Size(f.columns, f.rows)]
            c  == Calibrate(s7, s7.model.pixelPoints, s7.model.worldPoints,
                            s7.model.gridSize, s7.imgSize, NoDraw)
        IN  [st |-> c.st, status |-> c.status, ranCalibrate |-> TRUE]


-----------------------------------------------------------------------------
(* The inputs of the model *)

\* a cols x rows grid of points in row-major order, top-left first
MakeGrid(cols, rows, x0, y0, dx, dy) ==
    [k \in 1..(cols * rows) |->
        Pt(x0 + ((k - 1) % cols) * dx, y0 + ((k - 1) \div cols) * dy)]

\* pixel grids: columns 4.5, 4.49975 and -3.0 pixels apart, rows 3.0 apart
PixGrid(cols, rows, dx) == MakeGrid(cols, rows, 2 * Q, 3 * Q, dx, 3 * Q)
\* world grids: columns 1.0 or 0.0 apart (no spread in x), rows -0.5 apart
WorldGrid(cols, rows, dx) == MakeGrid(cols, rows, 0, 2 * Q, dx, -(Q \div 2))

PixDx == {18000, 17999, -12000}
WorldDx == {4000, 0}

GrayAll == [img |-> "gray", drawCalib |-> TRUE, drawMoveROIs |-> TRUE,
            drawSearchROI |-> TRUE]
GraySearch == [img |-> "gray", drawCalib |-> FALSE, drawMoveROIs |-> FALSE,
               drawSearchROI |-> TRUE]
OtherCalib == [img |-> "other", drawCalib |-> TRUE, drawMoveROIs |-> FALSE,
               drawSearchROI |-> FALSE]

Call(pixelPts, worldPts, gridSize, imgSize, draw) ==
    [pixelPts |-> pixelPts, worldPts |-> worldPts, gridSize |-> gridSize,
     imgSize |-> imgSize, draw |-> draw]

\* the calls of Calibrate that the model makes
CalibrateCalls ==
    \* full 2x4 grids
    {Call(PixGrid(2, 4, dx), WorldGrid(2, 4, wx), Size(2, 4), Size(24, 24), NoDraw) :
        dx \in PixDx, wx \in WorldDx}
    \cup
    {Call(PixGrid(2, 4, 18000), WorldGrid(2, 4, wx), Size(2, 4), Size(8, 14), d) :
        wx \in WorldDx, d \in {GrayAll, OtherCalib}}
    \cup
    {Call(PixGrid(2, 4, -12000), WorldGrid(2, 4, 4000), Size(2, 4), Size(24, 24), GraySearch)}
    \cup
    \* accepted by the argument check, failing later
    {Call(PixGrid(2, 4, 18000), WorldGrid(2, 4, 4000), Size(4, 2), Size(24, 24), NoDraw),
     Call(PixGrid(2, 2, 18000), WorldGrid(2, 2, 4000), Size(2, 2), Size(24, 24), NoDraw),
     Call(PixGrid(1, 1, 18000), WorldGrid(1, 1, 4000), Size(1, 1), Size(24, 24), NoDraw)}
    \cup
    \* rejected by the argument check
    {Call(PixGrid(2, 4, 18000), WorldGrid(2, 2, 4000), Size(2, 4), Size(24, 24), NoDraw),
     Call(PixGrid(2, 2, 18000), WorldGrid(2, 4, 4000), Size(2, 2), Size(24, 24), NoDraw),
     Call(<<>>, <<>>, Size(0, 0), Size(24, 24), NoDraw),
     Call(<<>>, <<>>, Size(2, 4), Size(24, 24), NoDraw),
     Call(PixGrid(2, 4, 18000), WorldGrid(2, 4, 4000), Size(2, 2), Size(24, 24), NoDraw),
     Call(PixGrid(2, 4, 18000), WorldGrid(2, 4, 4000), Size(-2, -4), Size(24, 24), NoDraw)}

\* Calibrate calls with 2x4 grids of several shapes: the first column at
\* x = 2.0 or 2.5, the second one 4.1 or 4.5 pixels to its right, the rows 3
\* or 5 pixels apart, in images of several sizes; and a grid that is given
\* from right to left, its first column at x = 6.5 and its second one at 2.0
SwathCalls ==
    {Call(MakeGrid(2, 4, x0, 3 * Q, dx, dy), WorldGrid(2, 4, 4000), Size(2, 4), img, NoDraw) :
        x0 \in {2 * Q, 2 * Q + Q \div 2}, dx \in {16400, 18000}, dy \in {3 * Q, 5 * Q},
        img \in {Size(7, 24), Size(24, 24), Size(24, 20)}}
    \cup {Call(MakeGrid(2, 4, 6 * Q + Q \div 2, 3 * Q, -18000, 3 * Q),
                WorldGrid(2, 4, 4000), Size(2, 4), Size(24, 24), NoDraw)}

\* the points handed to PixelToWorld / WorldToPixel
PointInputs == {Pt(2 * Q + 18000, 6 * Q), Pt(Q, Q + Q \div 2)}

\* a calibration file with n points of a 2-column grid
ExternalFile(cols, rows, n, has, ok) ==
    [exists |-> TRUE, parseOK |-> ok, has |-> has,
     imageWidth |-> 24, imageHeight |-> 24, columns |-> cols, rows |-> rows,
     points |-> [k \in 1..n |->
                    [pixelX |-> 1000 + ((k - 1) % 2) * 6000,
                     pixelY |-> 2000 + ((k - 1) \div 2) * 3000,
                     worldX |-> ((k - 1) % 2) * 1000,
                     worldY |-> 2000 - ((k - 1) \div 2) * 500]],
     Left |-> Rect(1, 1, 5, 5), Right |-> Rect(9, 1, 5, 5),
     lines |-> <<[topX |-> 3, topY |-> 1, botX |-> 3, botY |-> 12]>>]

SavePaths == {"cal.json"} \cup Unwritable

LoadPaths == {"cal.json", "missing.json", "good.json", "short.json", "one.json",
              "flat.json", "garbled.json", "nolines.json", "nopoints.json",
              "shortnolines.json"}

\* the file system before the program runs: files written by other programs
InitFiles ==
    [p \in LoadPaths |->
        CASE p = "good.json"     -> ExternalFile(2, 4, 8, Sections, TRUE)
          [] p = "short.json"    -> ExternalFile(2, 4, 7, Sections, TRUE)
          [] p = "one.json"      -> ExternalFile(1, 1, 1, Sections, TRUE)
          [] p = "flat.json"     -> ExternalFile(2, 2, 4, Sections, TRUE)
          [] p = "garbled.json"  -> ExternalFile(2, 4, 8, Sections, FALSE)
          [] p = "nolines.json"  -> ExternalFile(2, 4, 8, Sections \ {"SearchLines"}, TRUE)
          [] p = "shortnolines.json" ->
                 ExternalFile(2, 4, 7, Sections \ {"SearchLines"}, TRUE)
          [] p = "nopoints.json" -> ExternalFile(2, 4, 8, Sections \ {"points"}, TRUE)
          [] OTHER               -> NoFile]

-----------------------------------------------------------------------------
(* The Calib object as a state machine *)

Cur == CalibState(m_model, m_imgSize, m_matHomogPixToWorld, m_matHomogWorldToPix)

SetCalib(st) ==
    /\ m_model' = st.model
    /\ m_imgSize' = st.imgSize
    /\ m_matHomogPixToWorld' = st.p2w
    /\ m_matHomogWorldToPix' = st.w2p

InitCalib ==
    /\ m_model = EmptyModel
    /\ m_imgSize = Size(0, 0)
    /\ m_matHomogPixToWorld = EmptyMat
    /\ m_matHomogWorldToPix = EmptyMat
    /\ files = InitFiles
    /\ ptOut = Unwritten
    /\ ret = [op |-> "new", status |-> GC_OK]

\* a call of Calibrate out of a set of calls
CalibrateWith(calls) ==
    \E call \in calls :
        LET c == Calibrate(Cur, call.pixelPts, call.worldPts, call.gridSize,
                           call.imgSize, call.draw)
        IN  /\ SetCalib(c.st)
            /\ ret' = [op |-> "Calibrate", status |-> c.status,
                       nPixel |-> Len(call.pixelPts), nWorld |-> Len(call.worldPts),
                       gridSize |-> call.gridSize]
            /\ ptOut' = Unwritten
            /\ UNCHANGED <<files, gridAll>>

DoCalibrate == CalibrateWith(CalibrateCalls)

DoCalibrateSwaths == CalibrateWith(SwathCalls)

DoLoad ==
    \E path \in LoadPaths :
        LET l == Load(Cur, files[path])
        IN  /\ SetCalib(l.st)
            /\ ret' = [op |-> "Load", status |-> l.status, path |-> path,
                       ranCalibrate |-> l.ranCalibrate]
            /\ ptOut' = Unwritten
            /\ UNCHANGED <<files, gridAll>>

\* Save that resets the model when it cannot open the file
DoSave_ClearsModel ==
    \E path \in SavePaths :
        LET sv == Save(Cur, files, path)
        IN  /\ files' = sv.files
            /\ ret' = [op |-> "Save", status |-> sv.status, path |-> path]
            /\ ptOut' = Unwritten
            /\ m_model' = IF path \in Unwritable THEN EmptyModel ELSE m_model
            /\ UNCHANGED <<m_imgSize, m_matHomogPixToWorld, m_matHomogWorldToPix, gridAll>>

DoSave ==
    \E path \in SavePaths :
        LET sv == Save(Cur, files, path)
        IN  /\ files' = sv.files
            /\ ret' = [op |-> "Save", status |-> sv.status, path |-> path]
            /\ ptOut' = Unwritten
            /\ UNCHANGED <<calibVars, gridAll>>

DoModelJsonString ==
    /\ ret' = [op |-> "ModelJsonString", status |-> GC_OK, value |-> ModelJsonString(Cur)]
    /\ ptOut' = Unwritten
    /\ UNCHANGED <<calibVars, files, gridAll>>

DoPixelToWorld ==
    \E pt \in PointInputs :
        LET t == Transform(m_matHomogPixToWorld, pt)
        IN  /\ ptOut' = t.out
            /\ ret' = [op |-> "PixelToWorld", status |-> t.status, pt |-> pt]
            /\ UNCHANGED <<calibVars, files, gridAll>>

DoWorldToPixel ==
    \E pt \in PointInputs :
        LET t == Transform(m_matHomogWorldToPix, pt)
        IN  /\ ptOut' = t.out
            /\ ret' = [op |-> "WorldToPixel", status |-> t.status, pt |-> pt]
            /\ UNCHANGED <<calibVars, files, gridAll>>

DoMoveSearchROI ==
    \E isLeft \in BOOLEAN :
        /\ ret' = [op |-> "MoveSearchROI", status |-> GC_OK,
                   value |-> MoveSearchROI(m_model, isLeft)]
        /\ ptOut' = Unwritten
        /\ UNCHANGED <<calibVars, files, gridAll>>

DoMoveRefPoint ==
    \E isLeft \in BOOLEAN :
        /\ ret' = [op |-> "MoveRefPoint", status |-> GC_OK,
                   value |-> MoveRefPoint(m_model, isLeft)]
        /\ ptOut' = Unwritten
        /\ UNCHANGED <<calibVars, files, gridAll>>

NextCalib ==
    \/ DoCalibrate
    \/ DoLoad
    \/ DoSave
    \/ DoModelJsonString
    \/ DoPixelToWorld
    \/ DoWorldToPixel
    \/ DoMoveSearchROI
    \/ DoMoveRefPoint

\* calibrations of several grid shapes and the readers of their results
NextSwaths ==
    \/ DoCalibrateSwaths
    \/ DoPixelToWorld
    \/ DoMoveSearchROI
    \/ DoMoveRefPoint

-----------------------------------------------------------------------------
(* Constants of findcalibgrid.h *)

\* the number of rotated templates of the bank
TEMPLATE_COUNT == 5
\* the least score, in percent, of a move target in the coarse match
TEMPLATE_MATCH_MIN_SCORE == 10
\* the rows and the columns of bowties of the calibration target
CALIB_POINT_ROW_COUNT == 4
CALIB_POINT_COL_COUNT == 2
\* the bowties of the calibration target
TARGET_COUNT == CALIB_POINT_ROW_COUNT * CALIB_POINT_COL_COUNT

-----------------------------------------------------------------------------
(* Images and OpenCV's template matching *)

\* An image is its size and the bowtie markers in it.  A marker is where the
\* window of its best match starts (x, y), the score in percent there with
\* the template of its own rotation (rot, a template index) and nothing
\* around it: the correlation map of a template is the marker's score at
\* (x, y) and 0 elsewhere.  Each step of rotation between the marker and the
\* template costs RotFall percent.
RotFall == 10

Marker(x, y, score, rot) == [x |-> x, y |-> y, score |-> score, rot |-> rot]
Image(cols, rows, markers) ==
    [empty |-> FALSE, cols |-> cols, rows |-> rows, markers |-> markers]
EmptyImage == [empty |-> TRUE, cols |-> 0, rows |-> 0, markers |-> {}]

ScoreOf(mk, index) == Max(0, mk.score - RotFall * Abs(index - mk.rot))

\* img( rect ) is defined (cv::Mat::operator() does not throw)
RectInImage(rect, img) ==
    /\ 0 <= rect.x /\ 0 <= rect.width /\ rect.x + rect.width <= img.cols
    /\ 0 <= rect.y /\ 0 <= rect.height /\ rect.y + rect.height <= img.rows

\* the window of side dim at (x, y) lies in rect
WindowInRect(x, y, dim, rect) ==
    /\ rect.x <= x /\ x + dim <= rect.x + rect.width
    /\ rect.y <= y /\ y + dim <= rect.y + rect.height

\* cv::matchTemplate( img, template ): the correlation map, as the set of its
\* entries that are not 0
CorrelationMap(img, index, dim) ==
    {[x |-> mk.x, y |-> mk.y, val |-> ScoreOf(mk, index)] :
        mk \in {m \in img.markers : /\ ScoreOf(m, index) > 0
                                    /\ m.x + dim <= img.cols
                                    /\ m.y + dim <= img.rows}}

\* cv::minMaxLoc: the greatest entry, the first one in row-major order among
\* equals; (0, 0) with value 0 in a map that is 0 everywhere
MaxLoc(map) ==
    IF map = {} THEN [x |-> 0, y |-> 0, val |-> 0]
    ELSE CHOOSE e \in map :
            \A f \in map :
                \/ e.val > f.val
                \/ e.val = f.val /\ (e.y < f.y \/ (e.y = f.y /\ e.x <= f.x))

\* the radius of the disk that MatchTemplate clears around a maximum
SuppressRadius == 17

\* a circle that clears nothing
Suppress_None(map, at) == map

\* cv::circle( map, at, SuppressRadius, 0, FILLED )
Suppress(map, at) ==
    {e \in map : (e.x - at.x) * (e.x - at.x) + (e.y - at.y) * (e.y - at.y)
                    > SuppressRadius * SuppressRadius}

-----------------------------------------------------------------------------
(* FindCalibGrid *)

Item(pt, score) == [pt |-> pt, score |-> score]

\* the state of a FindCalibGrid object as one record
GridState(templates, matchItems, matchSpace, matchSpaceSmall, rectLeft, rectRight, itemArray) ==
    [templates |-> templates, matchItems |-> matchItems, matchSpace |-> matchSpace,
     matchSpaceSmall |-> matchSpaceSmall, rectLeft |-> rectLeft, rectRight |-> rectRight,
     itemArray |-> itemArray]

\* the side of the templates of a bank that is not empty
TemplateDim(g) == g.templates[1].dim

\* a copy of the bowtie rotated by angle degrees into m_templates[ index ]
Write(index, angle) == [index |-> index, angle |-> angle]

\* the loop of rotations that writes its second template beside the first
RECURSIVE RotationWrites_SameSide(_)
RotationWrites_SameSide(i) ==
    IF i >= TEMPLATE_COUNT \div 2 THEN <<>>
    ELSE <<Write(i, i - (TEMPLATE_COUNT \div 2)), Write(i + 1, i + 1)>>
         \o RotationWrites_SameSide(i + 1)

\* the copies that the loop of rotations makes from iteration i on
RECURSIVE RotationWrites(_)
RotationWrites(i) ==
    IF i >= TEMPLATE_COUNT \div 2 THEN <<>>
    ELSE <<Write(i, i - (TEMPLATE_COUNT \div 2)),
           Write((TEMPLATE_COUNT \div 2) + i + 1, i + 1)>>
         \o RotationWrites(i + 1)

\* the copies into m_templates that InitBowtieTemplate makes, in their order:
\* the unrotated bowtie to the center, then those of the loop
TemplateWrites == <<Write(TEMPLATE_COUNT \div 2, 0)>> \o RotationWrites(0)

\* the subsequence of the angles written to index k
RECURSIVE AnglesAt(_, _)
AnglesAt(writes, k) ==
    IF writes = <<>> THEN <<>>
    ELSE (IF Head(writes).index = k THEN <<Head(writes).angle>> ELSE <<>>)
         \o AnglesAt(Tail(writes), k)

\* the template at 0-based index k after InitBowtieTemplate: its side and the
\* angles of the copies made into it, the last one being what it shows
BankTemplate(k, dim) == [dim |-> dim, angles |-> AnglesAt(TemplateWrites, k)]

\* the number of copies that InitBowtieTemplate makes outside of the bank
OutsideWrites ==
    Cardinality({j \in 1..Len(TemplateWrites) :
                    TemplateWrites[j].index \notin 0..(TEMPLATE_COUNT - 1)})

\* the range test without its lower bound
TemplateDimInvalid_NoLowerBound(templateDim) == 1000 < templateDim

\* the range test of InitBowtieTemplate on the template dimension
TemplateDimInvalid(templateDim) == 20 > templateDim \/ 1000 < templateDim

\* FindCalibGrid::InitBowtieTemplate (RotateImage does not fail on the
\* images that this function hands it)
InitBowtieTemplate(g, templateDim, searchImgSize) ==
    IF TemplateDimInvalid(templateDim)
    THEN [g |-> g, status |-> GC_ERR, outside |-> 0]
    ELSE
    LET templateDimEven == templateDim + (templateDim % 2)
        bank == [k \in 1..TEMPLATE_COUNT |-> BankTemplate(k - 1, templateDimEven)]
        big == Size(searchImgSize.width - templateDimEven + 1,
                    searchImgSize.height - templateDimEven + 1)
        small == Size((templateDimEven \div 2) + 1, (templateDimEven \div 2) + 1)
        g1 == [g EXCEPT !.templates = bank]
    IN  IF big.width < 0 \/ big.height < 0
        THEN [g |-> g1, status |-> GC_EXCEPT, outside |-> OutsideWrites]
        ELSE [g |-> [g1 EXCEPT !.matchSpace = big, !.matchSpaceSmall = small],
              status |-> GC_OK, outside |-> OutsideWrites]

\* the test of MatchTemplate that a maximum is off the border of the image
InsideBorder(mx, img) ==
    /\ 0 < mx.x /\ 0 < mx.y
    /\ img.cols - 1 > mx.x /\ img.rows - 1 > mx.y

\* the score test that lets every maximum pass
ScoreOK_Always(dMax, minScore) == TRUE

\* the score test of MatchTemplate
ScoreOK(dMax, minScore) == dMax >= minScore

\* one iteration of the loop of MatchTemplate: the maximum it took, whether
\* the maximum was off the border, and whether it was recorded
Step(mx, inside, recorded) == [mx |-> mx, inside |-> inside, recorded |-> recorded]

\* the loop of MatchTemplate from iteration i on: the items recorded and the
\* iterations made
RECURSIVE ExtractMatches(_, _, _, _, _, _, _, _)
ExtractMatches(map, i, numToFind, minScore, img, dim, items, steps) ==
    IF i >= numToFind THEN [items |-> items, steps |-> steps]
    ELSE
    LET AtMax(mx) ==
            IF InsideBorder(mx, img) /\ ~ScoreOK(mx.val, minScore)
            THEN [items |-> items, steps |-> Append(steps, Step(mx, TRUE, FALSE))]
            ELSE ExtractMatches(
                    Suppress(map, mx), i + 1, numToFind, minScore, img, dim,
                    IF InsideBorder(mx, img)
                    THEN Append(items, Item(Pt(ToDouble(mx.x) + (dim * Q) \div 2,
                                               ToDouble(mx.y) + (dim * Q) \div 2), mx.val))
                    ELSE items,
                    Append(steps, Step(mx, InsideBorder(mx, img), InsideBorder(mx, img))))
    IN  AtMax(MaxLoc(map))

\* the iterations of a call of MatchTemplate that did not reach its loop
NoSteps == <<>>

\* FindCalibGrid::MatchTemplate on an object with templates; scores in
\* percent.  matches counts the calls of cv::matchTemplate
MatchTemplate(g, index, img, minScore, numToFind) ==
    IF 0 > index \/ TEMPLATE_COUNT <= index
    THEN [g |-> g, status |-> GC_ERR, matches |-> 0, steps |-> NoSteps]
    ELSE IF 5 > minScore \/ 100 < minScore
    THEN [g |-> g, status |-> GC_ERR, matches |-> 0, steps |-> NoSteps]
    ELSE IF 1 > numToFind \/ 1000 < numToFind
    THEN [g |-> g, status |-> GC_ERR, matches |-> 0, steps |-> NoSteps]
    ELSE
    LET dim == TemplateDim(g)
        Found(ex) ==
            [g |-> [g EXCEPT !.matchItems = ex.items,
                             !.matchSpace = Size(img.cols - dim + 1, img.rows - dim + 1)],
             status |-> IF ex.items = <<>> THEN GC_ERR ELSE GC_OK, matches |-> 1,
             steps |-> ex.steps]
    IN  IF img.empty \/ img.cols < dim \/ img.rows < dim
        THEN [g |-> [g EXCEPT !.matchItems = <<>>], status |-> GC_EXCEPT, matches |-> 1,
              steps |-> NoSteps]
        ELSE Found(ExtractMatches(CorrelationMap(img, index, dim), 0, numToFind,
                                  minScore, img, dim, <<>>, NoSteps))

\* the status of a call that ended the process
SIGSEGV == "SIGSEGV"

\* a call of MatchTemplate on any object: what it may do.  With an empty bank
\* and arguments in range, m_templates[ index ] is outside the vector: the
\* call either ends the process or cv::matchTemplate throws on what it reads
\* there
MatchTemplateOutcomes(g, index, img, minScore, numToFind) ==
    IF /\ g.templates = <<>>
       /\ 0 <= index /\ index < TEMPLATE_COUNT
       /\ 5 <= minScore /\ minScore <= 100
       /\ 1 <= numToFind /\ numToFind <= 1000
    THEN {[g |-> [g EXCEPT !.matchItems = <<>>], status |-> st, matches |-> 1,
           steps |-> NoSteps] : st \in {GC_EXCEPT, SIGSEGV}}
    ELSE {MatchTemplate(g, index, img, minScore, numToFind)}

\* FindCalibGrid::SubpixelPointRefine on a correlation map of the given size:
\* the centroid of the 3x3 entries around ptMax, weighted by their values
SubpixelPointRefine(map, size, ptMax) ==
    IF 1 > ptMax.x \/ 1 > ptMax.y \/ size.width - 2 < ptMax.x \/ size.height - 2 < ptMax.y
    THEN [status |-> GC_ERR, pt |-> Pt(0, 0)]
    ELSE
    LET near == {e \in map : Abs(e.x - ptMax.x) <= 1 /\ Abs(e.y - ptMax.y) <= 1}
        Sum[S \in SUBSET near] ==
            IF S = {} THEN [t |-> 0, tx |-> 0, ty |-> 0]
            ELSE LET e == CHOOSE f \in S : TRUE
                     r == Sum[S \ {e}]
                 IN  [t |-> r.t + e.val, tx |-> r.tx + e.val * e.x,
                      ty |-> r.ty + e.val * e.y]
        tot == Sum[near]
    IN  [status |-> GC_OK,
         pt |-> Pt(RoundDiv(tot.tx * Q, tot.t), RoundDiv(tot.ty * Q, tot.t))]

\* the comparison that lets every local peak replace the item
PeakImproves_Always(maxScore, score) == TRUE

\* the comparison of MatchRefine between the local peak and the item's score
PeakImproves(maxScore, score) == maxScore > score

\* the window that MatchRefine searches around an item
RefineRect(item, img, dim) ==
    LET x0 == Max(0, cvRound(item.pt.x) - (dim \div 2) - (dim \div 4))
        y0 == Max(0, cvRound(item.pt.y) - (dim \div 2) - (dim \div 4))
        w  == dim + (dim \div 2)
    IN  Rect(IF x0 + w >= img.cols THEN img.cols - w ELSE x0,
             IF y0 + w >= img.rows THEN img.rows - w ELSE y0, w, w)

\* the argument tests with a minScore range that ends at 0.5
RefineArgsInvalid_HalfRange(index, minScore, numToFind) ==
    \/ 0 > index \/ TEMPLATE_COUNT <= index
    \/ 5 > minScore \/ 50 < minScore
    \/ 1 > numToFind \/ 1000 < numToFind

\* the argument tests of MatchRefine
RefineArgsInvalid(index, minScore, numToFind) ==
    \/ 0 > index \/ TEMPLATE_COUNT <= index
    \/ 5 > minScore \/ 100 < minScore
    \/ 1 > numToFind \/ 1000 < numToFind

\* FindCalibGrid::MatchRefine: the status, the item after the call, and the
\* object (its correlation buffers follow the image)
MatchRefine(g, index, img, minScore, numToFind, item) ==
    IF RefineArgsInvalid(index, minScore, numToFind)
    THEN [g |-> g, status |-> GC_ERR, item |-> item, matches |-> 0]
    ELSE
    LET dim == TemplateDim(g)
        \* the item moved to the maximum mx of the window's map, refined to sp
        Moved(g2, rect, mx, sp) ==
            IF PeakImproves(mx.val, item.score)
            THEN IF sp.status = GC_OK
                 THEN [g |-> g2, status |-> GC_OK, matches |-> 2,
                       item |-> Item(Pt(ToDouble(rect.x) + sp.pt.x + (dim * Q) \div 2,
                                        ToDouble(rect.y) + sp.pt.y + (dim * Q) \div 2),
                                     mx.val)]
                 ELSE [g |-> g2, status |-> sp.status, item |-> item, matches |-> 2]
            ELSE [g |-> g2, status |-> GC_OK, item |-> item, matches |-> 2]
        AtMax(g2, rect, local, mx) ==
            Moved(g2, rect, mx, SubpixelPointRefine(local, g2.matchSpaceSmall, mx))
        \* the match in the window rect, whose correlation map is local
        InWindow(g2, rect, local) == AtMax(g2, rect, local, MaxLoc(local))
        Windowed(g1, rect) ==
            IF ~RectInImage(rect, img)
            THEN [g |-> g1, status |-> GC_EXCEPT, item |-> item, matches |-> 1]
            ELSE InWindow(
                    [g1 EXCEPT !.matchSpaceSmall =
                        Size(rect.width - dim + 1, rect.height - dim + 1)],
                    rect,
                    {[x |-> e.x - rect.x, y |-> e.y - rect.y, val |-> e.val] :
                        e \in {f \in CorrelationMap(img, index, dim) :
                                  WindowInRect(f.x, f.y, dim, rect)}})
    IN  IF img.empty \/ img.cols < dim \/ img.rows < dim
        THEN [g |-> g, status |-> GC_EXCEPT, item |-> item, matches |-> 1]
        ELSE Windowed([g EXCEPT !.matchSpace = Size(img.cols - dim + 1, img.rows - dim + 1)],
                      RefineRect(item, img, dim))

\* a call of MatchRefine on any object: what it may do.  With an empty bank
\* and arguments in range, m_templates[ index ] is outside the vector, as in
\* MatchTemplate
MatchRefineOutcomes(g, index, img, minScore, numToFind, item) ==
    IF g.templates = <<>> /\ ~RefineArgsInvalid(index, minScore, numToFind)
    THEN {[g |-> g, status |-> st, item |-> item, matches |-> 1] :
            st \in {GC_EXCEPT, SIGSEGV}}
    ELSE {MatchRefine(g, index, img, minScore, numToFind, item)}

\* FindCalibGrid::SetMoveTargetROI
SetMoveTargetROI(g, img, rect, isLeft) ==
    [g |-> IF isLeft THEN [g EXCEPT !.rectLeft = rect] ELSE [g EXCEPT !.rectRight = rect],
     status |-> IF \/ rect.x < 0 \/ rect.y < 0
                   \/ rect.x + rect.width > img.cols
                   \/ rect.y + rect.height > img.rows
                THEN GC_ERR ELSE GC_OK]

\* the scratch image of FindMoveTargets: img inside the two move-search
\* rectangles, 0 elsewhere
Scratch(img, rectLeft, rectRight, dim) ==
    [img EXCEPT !.markers =
        {mk \in img.markers : \/ WindowInRect(mk.x, mk.y, dim, rectLeft)
                              \/ WindowInRect(mk.x, mk.y, dim, rectRight)}]

\* the inner loop of FindMoveTargets: MatchRefine of one item with the
\* templates j, j+1, ..., stopping at the first failure
RECURSIVE RefineWithAll(_, _, _, _, _)
RefineWithAll(g, img, item, j, matches) ==
    IF j >= TEMPLATE_COUNT
    THEN [g |-> g, status |-> GC_OK, item |-> item, matches |-> matches]
    ELSE
    LET After(r) ==
            IF r.status # GC_OK
            THEN [g |-> r.g, status |-> r.status, item |-> r.item,
                  matches |-> matches + r.matches]
            ELSE RefineWithAll(r.g, img, r.item, j + 1, matches + r.matches)
    IN  After(MatchRefine(g, j, img, 50, 1, item))

\* the outer loop of FindMoveTargets over the items of the coarse match
RECURSIVE RefineItems(_, _, _, _, _)
RefineItems(g, img, tempItems, i, matches) ==
    IF i > Len(tempItems) THEN [g |-> g, status |-> GC_OK, matches |-> matches]
    ELSE
    LET After(r) ==
            IF r.status # GC_OK
            THEN [g |-> r.g, status |-> r.status, matches |-> r.matches]
            ELSE RefineItems([r.g EXCEPT !.matchItems = Append(@, r.item)], img,
                             tempItems, i + 1, r.matches)
    IN  After(RefineWithAll(g, img, tempItems[i], 0, matches))

\* the output points of FindMoveTargets before the call
NoPoints == [left |-> Unwritten, right |-> Unwritten]

\* OrderTargets that takes the items in the order of their discovery
OrderTargets_DiscoveryOrder(g, retVal, out) ==
    IF 2 # Len(g.matchItems) THEN [status |-> GC_ERR, out |-> out]
    ELSE [status |-> retVal,
          out |-> [left |-> g.matchItems[1].pt, right |-> g.matchItems[2].pt]]

\* the last step of FindMoveTargets: the count check and the ordering by x
OrderTargets(g, retVal, out) ==
    IF 2 # Len(g.matchItems) THEN [status |-> GC_ERR, out |-> out]
    ELSE IF g.matchItems[1].pt.x < g.matchItems[2].pt.x
    THEN [status |-> retVal,
          out |-> [left |-> g.matchItems[1].pt, right |-> g.matchItems[2].pt]]
    ELSE [status |-> retVal,
          out |-> [left |-> g.matchItems[2].pt, right |-> g.matchItems[1].pt]]

\* FindCalibGrid::FindMoveTargets on an object with templates and an image
\* that is not empty: the try block
SearchMoveTargets(g, img, out) ==
    IF ~RectInImage(g.rectLeft, img) \/ ~RectInImage(g.rectRight, img)
    THEN [g |-> g, status |-> GC_EXCEPT, out |-> out, matches |-> 0]
    ELSE
    LET scratch == Scratch(img, g.rectLeft, g.rectRight, TemplateDim(g))
        Ordered(rf, fin) ==
            [g |-> rf.g, status |-> fin.status, out |-> fin.out, matches |-> rf.matches]
        Counted(rf) == Ordered(rf, OrderTargets(rf.g, rf.status, out))
        Refined(mt) ==
            IF mt.status = GC_OK
            THEN Counted(RefineItems([mt.g EXCEPT !.matchItems = <<>>], scratch,
                                     mt.g.matchItems, 1, mt.matches))
            ELSE Counted([g |-> mt.g, status |-> mt.status, matches |-> mt.matches])
    IN  Refined(MatchTemplate([g EXCEPT !.matchItems = <<>>], TEMPLATE_COUNT \div 2,
                              scratch, TEMPLATE_MATCH_MIN_SCORE, 2))

\* FindMoveTargets that takes an empty bank for a bank that is ready
FindMoveTargets_EmptyBankOk(g, img, out) ==
    IF g.templates = <<>> THEN [g |-> g, status |-> GC_OK, out |-> out, matches |-> 0]
    ELSE IF img.empty THEN [g |-> g, status |-> GC_ERR, out |-> out, matches |-> 0]
    ELSE SearchMoveTargets(g, img, out)

\* FindCalibGrid::FindMoveTargets
FindMoveTargets(g, img, out) ==
    IF g.templates = <<>> THEN [g |-> g, status |-> GC_ERR, out |-> out, matches |-> 0]
    ELSE IF img.empty THEN [g |-> g, status |-> GC_ERR, out |-> out, matches |-> 0]
    ELSE SearchMoveTargets(g, img, out)

\* the orders in which std::sort may leave the elements with indices I when
\* it sorts them by increasing key: equal keys come out in any order
RECURSIVE Orders(_, _)
Orders(I, key) ==
    IF I = {} THEN {<<>>}
    ELSE UNION {{<<i>> \o t : t \in Orders(I \ {i}, key)} :
                    i \in {j \in I : \A k \in I : key[j] <= key[k]}}

\* the results of std::sort on items by increasing key
SortsOf(items, key) ==
    {[k \in 1..Len(items) |-> items[o[k]]] : o \in Orders(1..Len(items), key)}

\* the sort of the first candidates that keeps their order
ByScore_KeepOrder(items) == {items}

\* the first sort of SortPoints: high scores at the top
ByScore(items) == SortsOf(items, [i \in 1..Len(items) |-> 0 - items[i].score])

\* the sort of a row that keeps its order
ByX_KeepOrder(items) == {items}

\* the sort of a row of SortPoints by x
ByX(items) == SortsOf(items, [i \in 1..Len(items) |-> items[i].pt.x])

\* the rows i, i+1, ... of m_itemArray that SortPoints may build from the
\* match items sorted by y
RECURSIVE ItemRows(_, _)
ItemRows(items, i) ==
    IF i >= CALIB_POINT_ROW_COUNT THEN {<<>>}
    ELSE {<<row>> \o rest :
            row \in ByX(SubSeq(items, i * CALIB_POINT_COL_COUNT + 1,
                               (i + 1) * CALIB_POINT_COL_COUNT)),
            rest \in ItemRows(items, i + 1)}

\* the move-search rectangles that SortPoints computes from the first row of
\* the item array
SortedMoveRects(array, sizeSearchImage) ==
    LET first == array[1][1]
        last == array[1][CALIB_POINT_COL_COUNT]
        searchDim == cvRound(last.pt.y - first.pt.y)
        rightX == cvRound(last.pt.x) - (searchDim \div 2)
    IN  [left  |-> Rect(Max(0, cvRound(first.pt.x) - (searchDim \div 2)),
                        Max(0, cvRound(first.pt.y) - (searchDim \div 2)),
                        searchDim, searchDim),
         right |-> Rect(rightX,
                        Max(0, cvRound(last.pt.y) - (searchDim \div 2)),
                        IF searchDim + rightX > sizeSearchImage.width
                        THEN sizeSearchImage.width - rightX - 1 ELSE searchDim,
                        searchDim)]

\* FindCalibGrid::SortPoints: what it may leave in the object, and its status
SortPoints(g, sizeSearchImage) ==
    LET bowtieCount == CALIB_POINT_ROW_COUNT * CALIB_POINT_COL_COUNT
        WithArray(items, array) ==
            LET WithRects(r) ==
                    [g |-> [g EXCEPT !.matchItems = items, !.itemArray = array,
                                     !.rectLeft = r.left, !.rectRight = r.right],
                     status |-> GC_OK]
            IN  WithRects(SortedMoveRects(array, sizeSearchImage))
        Arrays(items) == {WithArray(items, array) : array \in ItemRows(items, 0)}
        ByY(tempItems) ==
            SortsOf(tempItems, [i \in 1..Len(tempItems) |-> tempItems[i].pt.y])
    IN  IF bowtieCount > Len(g.matchItems)
        THEN {[g |-> g, status |-> GC_ERR]}
        ELSE UNION {Arrays(items) :
                items \in UNION {ByY(tempItems) :
                    tempItems \in ByScore(SubSeq(g.matchItems, 1, bowtieCount))}}

\* FindCalibGrid::GetFoundPoints: the status and the caller's pts after it
GetFoundPoints(g, pts) ==
    IF g.itemArray = <<>> THEN [status |-> GC_ERR, pts |-> pts]
    ELSE IF CALIB_POINT_COL_COUNT * CALIB_POINT_ROW_COUNT
                # Len(g.itemArray[1]) * Len(g.itemArray)
    THEN [status |-> GC_ERR, pts |-> pts]
    ELSE [status |-> GC_OK,
          pts |-> [i \in 1..Len(g.itemArray) |->
                    [j \in 1..Len(g.itemArray[i]) |-> g.itemArray[i][j].pt]]]

\* the inner loop of FindTargets: MatchRefine of one item with the templates
\* j, j+1, ..., stopping at the first failure
RECURSIVE RefineTarget(_, _, _, _, _, _)
RefineTarget(g, img, minScore, item, j, matches) ==
    IF j >= TEMPLATE_COUNT
    THEN [g |-> g, status |-> GC_OK, item |-> item, matches |-> matches]
    ELSE
    LET After(r) ==
            IF r.status # GC_OK
            THEN [g |-> r.g, status |-> r.status, item |-> r.item,
                  matches |-> matches + r.matches]
            ELSE RefineTarget(r.g, img, minScore, r.item, j + 1, matches + r.matches)
    IN  After(MatchRefine(g, j, img, minScore, 1, item))

\* the outer loop of FindTargets over the items of the coarse match, stopping
\* at the first item whose refinement fails
RECURSIVE RefineTargets(_, _, _, _, _, _)
RefineTargets(g, img, minScore, itemsTemp, i, matches) ==
    IF i > Len(itemsTemp) THEN [g |-> g, status |-> GC_OK, matches |-> matches]
    ELSE
    LET After(r) ==
            IF r.status # GC_OK
            THEN [g |-> r.g, status |-> r.status, matches |-> r.matches]
            ELSE RefineTargets([r.g EXCEPT !.matchItems = Append(@, r.item)], img,
                               minScore, itemsTemp, i + 1, r.matches)
    IN  After(RefineTarget(g, img, minScore, itemsTemp[i], 0, matches))

\* what imwrite does with the result image: nothing asked, written, refused
NoResult == "none"
ResultWritten == "written"
ResultRefused == "refused"

\* FindCalibGrid::FindTargets: what it may do.  coarse are the items of the
\* coarse match, refined the match items handed to SortPoints, refineStatus
\* the status that the loops of MatchRefine ended with
FindTargets(g, img, minScore, result) ==
    IF 1 > minScore \/ 100 < minScore
    THEN {[g |-> g, status |-> GC_ERR, matches |-> 0, coarse |-> <<>>,
           refined |-> <<>>, refineStatus |-> GC_ERR, sortStatus |-> GC_ERR]}
    ELSE
    LET Sorted(mt, rf, sp) ==
            [g |-> sp.g,
             status |-> IF result = ResultRefused THEN GC_ERR ELSE sp.status,
             matches |-> rf.matches, coarse |-> mt.g.matchItems,
             refined |-> rf.g.matchItems, refineStatus |-> rf.status,
             sortStatus |-> sp.status]
        Refined(mt, rf) ==
            {Sorted(mt, rf, sp) : sp \in SortPoints(rf.g, Size(img.cols, img.rows))}
        Matched(mt) ==
            IF mt.status # GC_OK
            THEN {[g |-> mt.g, status |-> mt.status, matches |-> mt.matches,
                   coarse |-> <<>>, refined |-> <<>>, refineStatus |-> mt.status,
                   sortStatus |-> mt.status]}
            ELSE Refined(mt, RefineTargets([mt.g EXCEPT !.matchItems = <<>>], img,
                                           minScore, mt.g.matchItems, 1, mt.matches))
    IN  UNION {Matched(mt) :
                mt \in MatchTemplateOutcomes(g, TEMPLATE_COUNT \div 2, img, minScore,
                                             TARGET_COUNT * 2)}

-----------------------------------------------------------------------------
(* The inputs of the FindCalibGrid model *)

TemplateDims == {19, 20, 21, 1001}
SearchSizes == {Size(120, 80), Size(10, 10)}

\* the bowtie markers an image may hold
MarkerInputs ==
    {Marker(10, 10, 90, 3), Marker(70, 12, 60, 2), Marker(70, 12, 95, 2),
     Marker(16, 12, 80, 2), Marker(70, 20, 8, 2)}

\* the most markers in one image
MaxMarkers == 2

ImageInputs ==
    {EmptyImage} \cup
    {Image(120, 80, ms) : ms \in {S \in SUBSET MarkerInputs : Cardinality(S) <= MaxMarkers}}
    \cup {Image(24, 24, {})}

RectInputs == {Rect(5, 5, 40, 40), Rect(60, 5, 40, 40), Rect(100, 60, 40, 40)}

\* the image that the callers of SetMoveTargetROI hand it
ROIImage == Image(120, 80, {})

\* the images handed to MatchTemplate: none, one without markers, two markers
\* far apart, two markers 6 pixels apart, a faint marker, and a marker in the
\* first column of the image beside one inside it
MatchImages ==
    {EmptyImage, Image(120, 80, {}),
     Image(120, 80, {Marker(10, 10, 90, 3), Marker(70, 12, 95, 2)}),
     Image(120, 80, {Marker(10, 10, 90, 3), Marker(16, 12, 80, 2)}),
     Image(120, 80, {Marker(70, 20, 8, 2)}),
     Image(120, 80, {Marker(0, 10, 99, 2), Marker(70, 12, 60, 2)})}

MatchCall(index, img, minScore, numToFind) ==
    [index |-> index, img |-> img, minScore |-> minScore, numToFind |-> numToFind]

\* the calls of MatchTemplate: arguments in range on every image, and one
\* call for each argument out of its range
MatchCalls ==
    {MatchCall(TEMPLATE_COUNT \div 2, img, minScore, numToFind) :
        img \in MatchImages, minScore \in {10, 100}, numToFind \in {1, 2}}
    \cup {MatchCall(TEMPLATE_COUNT, Image(120, 80, {}), 10, 1),
          MatchCall(0, Image(120, 80, {}), 4, 1),
          MatchCall(0, Image(120, 80, {}), 10, 0)}

\* the image handed to MatchRefine with markers in it
RefineImage == Image(120, 80, {Marker(10, 10, 90, 3), Marker(70, 12, 95, 2)})

\* candidates of the caller of MatchRefine that no coarse match has found,
\* with scores below the marker's: one at a marker, and one whose search
\* window has the marker in its corner when the templates have side 22
CandidateInputs ==
    {Item(Pt(ToDouble(21), ToDouble(21)), 50), Item(Pt(ToDouble(26), ToDouble(26)), 50)}

\* the calls of MatchRefine but for the candidate: arguments in range on
\* three images, and one call for each argument out of its range
RefineCalls ==
    {MatchCall(index, img, minScore, 1) :
        index \in {2, 3}, img \in {RefineImage, Image(24, 24, {}), EmptyImage},
        minScore \in {10, 100}}
    \cup {MatchCall(TEMPLATE_COUNT, RefineImage, 10, 1),
          MatchCall(2, RefineImage, 4, 1),
          MatchCall(2, RefineImage, 10, 0)}

\* the bowties of a calibration target of 4 rows and 2 columns as the
\* unrotated template sees them: the rows 18 to 20 pixels apart, the top row
\* and the bottom row level, the right bowtie one pixel lower in the second
\* row and one pixel higher in the third
TargetMarkers ==
    {Marker(20, 1, 90, 2),  Marker(80, 1, 88, 2),
     Marker(20, 20, 86, 2), Marker(80, 21, 84, 2),
     Marker(20, 40, 82, 2), Marker(80, 39, 80, 2),
     Marker(20, 58, 66, 2), Marker(80, 58, 64, 2)}

\* the same target tilted: the top right bowtie two pixels lower than the top
\* left one
TiltedMarkers ==
    (TargetMarkers \ {Marker(80, 1, 88, 2)}) \cup {Marker(80, 3, 88, 2)}

\* the images handed to FindTargets: none, one without markers, the target,
\* the tilted target, the target without its last bowtie, the target with a
\* rotated bowtie-like spot between the columns, and the target with a
\* rotated spot whose window ends at the right edge of the image
TargetImages ==
    {EmptyImage, Image(120, 80, {}),
     Image(120, 80, TargetMarkers),
     Image(120, 80, TiltedMarkers),
     Image(120, 80, TargetMarkers \ {Marker(80, 58, 64, 2)}),
     Image(120, 80, TargetMarkers \cup {Marker(50, 30, 75, 4)}),
     Image(120, 80, TargetMarkers \cup {Marker(100, 30, 50, 3)})}

TargetCall(img, minScore, result) ==
    [img |-> img, minScore |-> minScore, result |-> result]

\* the calls of FindTargets: every image with a minScore that FindTargets and
\* the coarse match accept; no image and the target with a minScore below the
\* range of FindTargets and with one in it that the coarse match refuses; the
\* target with a result image written and refused
TargetCalls ==
    {TargetCall(img, 10, NoResult) : img \in TargetImages}
    \cup {TargetCall(img, minScore, NoResult) :
            img \in {EmptyImage, Image(120, 80, TargetMarkers)}, minScore \in {0, 3}}
    \cup {TargetCall(Image(120, 80, TargetMarkers), 10, result) :
            result \in {ResultWritten, ResultRefused}}

-----------------------------------------------------------------------------
(* The FindCalibGrid object as a state machine *)

CurGrid == GridState(m_templates, m_matchItems, m_matchSpace, m_matchSpaceSmall,
                     m_rectLeftMoveSearch, m_rectRightMoveSearch, m_itemArray)

SetGrid(g) ==
    /\ m_templates' = g.templates
    /\ m_matchItems' = g.matchItems
    /\ m_matchSpace' = g.matchSpace
    /\ m_matchSpaceSmall' = g.matchSpaceSmall
    /\ m_rectLeftMoveSearch' = g.rectLeft
    /\ m_rectRightMoveSearch' = g.rectRight
    /\ m_itemArray' = g.itemArray

InitGrid ==
    /\ m_templates = <<>>
    /\ m_matchItems = <<>>
    /\ m_matchSpace = Size(0, 0)
    /\ m_matchSpaceSmall = Size(0, 0)
    /\ m_rectLeftMoveSearch = Rect(0, 0, 5, 5)
    /\ m_rectRightMoveSearch = Rect(10, 0, 5, 5)
    /\ m_itemArray = <<>>
    /\ ptsFound = NoPoints
    /\ gret = [op |-> "new", status |-> GC_OK, matches |-> 0]

DoInitBowtieTemplate ==
    \E templateDim \in TemplateDims, searchImgSize \in SearchSizes :
        LET r == InitBowtieTemplate(CurGrid, templateDim, searchImgSize)
        IN  /\ SetGrid(r.g)
            /\ gret' = [op |-> "InitBowtieTemplate", status |-> r.status, matches |-> 0,
                        templateDim |-> templateDim,
                        outside |-> r.outside]
            /\ ptsFound' = NoPoints
            /\ UNCHANGED calibAll

DoSetMoveTargetROI ==
    \E rect \in RectInputs, isLeft \in BOOLEAN :
        LET r == SetMoveTargetROI(CurGrid, ROIImage, rect, isLeft)
        IN  /\ SetGrid(r.g)
            /\ gret' = [op |-> "SetMoveTargetROI", status |-> r.status, matches |-> 0,
                        rect |-> rect, isLeft |-> isLeft]
            /\ ptsFound' = NoPoints
            /\ UNCHANGED calibAll

DoFindMoveTargets ==
    \E img \in ImageInputs :
        LET r == FindMoveTargets(CurGrid, img, NoPoints)
        IN  /\ SetGrid(r.g)
            /\ gret' = [op |-> "FindMoveTargets", status |-> r.status,
                        matches |-> r.matches, markers |-> Cardinality(img.markers)]
            /\ ptsFound' = r.out
            /\ UNCHANGED calibAll

DoMatchTemplate ==
    \E c \in MatchCalls :
        \E r \in MatchTemplateOutcomes(CurGrid, c.index, c.img, c.minScore, c.numToFind) :
            /\ SetGrid(r.g)
            /\ gret' = [op |-> "MatchTemplate", status |-> r.status,
                        matches |-> r.matches, call |-> c, steps |-> r.steps]
            /\ ptsFound' = NoPoints
            /\ UNCHANGED calibAll

\* the candidates that a caller may hand to MatchRefine: an item of the last
\* coarse match, the candidate of its last MatchRefine call, or one of its own
Candidates ==
    {m_matchItems[i] : i \in 1..Len(m_matchItems)}
    \cup (IF gret.op = "MatchRefine" THEN {gret.item} ELSE {})
    \cup CandidateInputs

DoMatchRefine ==
    \E c \in RefineCalls, cand \in Candidates :
        \E r \in MatchRefineOutcomes(CurGrid, c.index, c.img, c.minScore, c.numToFind, cand) :
            /\ SetGrid(r.g)
            /\ gret' = [op |-> "MatchRefine", status |-> r.status, matches |-> r.matches,
                        call |-> c, before |-> cand, item |-> r.item]
            /\ ptsFound' = NoPoints
            /\ UNCHANGED calibAll

DoFindTargets ==
    \E c \in TargetCalls :
        \E r \in FindTargets(CurGrid, c.img, c.minScore, c.result) :
            /\ SetGrid(r.g)
            /\ gret' = [op |-> "FindTargets", status |-> r.status, matches |-> r.matches,
                        call |-> c, coarse |-> r.coarse, refined |-> r.refined,
                        refineStatus |-> r.refineStatus, sortStatus |-> r.sortStatus]
            /\ ptsFound' = NoPoints
            /\ UNCHANGED calibAll

DoGetFoundPoints ==
    LET r == GetFoundPoints(CurGrid, <<>>)
    IN  /\ gret' = [op |-> "GetFoundPoints", status |-> r.status, matches |-> 0,
                    pts |-> r.pts]
        /\ ptsFound' = NoPoints
        /\ UNCHANGED <<gridVars, calibAll>>

NextGrid ==
    \/ DoInitBowtieTemplate
    \/ DoSetMoveTargetROI
    \/ DoFindMoveTargets

\* the template bank and the coarse match
NextMatch ==
    \/ DoInitBowtieTemplate
    \/ DoMatchTemplate

\* the template bank, the coarse match and the refinement
NextRefine ==
    \/ DoInitBowtieTemplate
    \/ DoMatchTemplate
    \/ DoMatchRefine

\* the template bank and the search of the calibration target
NextTargets ==
    \/ DoInitBowtieTemplate
    \/ DoFindTargets
    \/ DoGetFoundPoints

-----------------------------------------------------------------------------
(* The specifications *)

Init == InitCalib /\ InitGrid

\* a Calib object and its callers
Next == NextCalib

Spec == Init /\ [][Next]_vars

\* a Calib object calibrated on grids of several shapes
SpecSwaths == Init /\ [][NextSwaths]_vars

\* a FindCalibGrid object and the callers of its move-target search
SpecGrid == Init /\ [][NextGrid]_vars

\* a FindCalibGrid object and the callers of its coarse match and of the
\* refinement of the candidates
SpecRefine == Init /\ [][NextRefine]_vars

\* a FindCalibGrid object and the callers of its search of the calibration
\* target
SpecTargets == Init /\ [][NextTargets]_vars

\* a FindCalibGrid object and the callers of its coarse match
SpecMatch == Init /\ [][NextMatch]_vars

-----------------------------------------------------------------------------
(* Properties of Calib *)

\* what the argument check of Calibrate is said to reject, read off the call
RejectedArgs(r) ==
    \/ r.nPixel # r.nWorld
    \/ r.nPixel = 0 \/ r.nWorld = 0
    \/ r.gridSize.width * r.gridSize.height # r.nPixel
    \/ r.gridSize.width <= 0

\* C1: a Calibrate call with point lists of different lengths, with empty
\* lists, with a grid whose width*height is not the point count or whose
\* width is not positive returns the validation error and leaves the model,
\* the image size and both homographies as they were.
C1_InvalidArgsLeaveState ==
    [][(ret'.op = "Calibrate" /\ RejectedArgs(ret'))
         => (ret'.status = GC_ERR /\ UNCHANGED <<calibVars, files>>)]_vars

C1_Witness ==
    /\ ret.op = "Calibrate" /\ RejectedArgs(ret) /\ ret.status = GC_ERR
    /\ m_model.pixelPoints # <<>> /\ ~m_matHomogPixToWorld.empty

\* C2: every Calibrate or Load call that returns a status other than success
\* leaves the model, the image size and both homographies as they were.
C2_FailureLeavesState ==
    [][(ret'.op \in {"Calibrate", "Load"} /\ ret'.status # GC_OK)
         => UNCHANGED calibVars]_vars

\* C3: in every reachable state the pixel-to-world and the world-to-pixel
\* homography are both present or both absent.
C3_HomographiesTogether ==
    m_matHomogPixToWorld.empty = m_matHomogWorldToPix.empty

C3_Witness ==
    /\ ret.op \in {"Calibrate", "Load"} /\ ret.status \in {GC_ERR, GC_EXCEPT}
    /\ ~m_matHomogPixToWorld.empty /\ ~m_matHomogWorldToPix.empty
    /\ Len(m_model.pixelPoints) < 4 /\ m_model.pixelPoints # <<>>

\* C4: whenever the model's pixel points are not empty, there are as many
\* world points, and gridSize.width*gridSize.height of them.
C4_PointCountsAgree ==
    m_model.pixelPoints # <<>> =>
        /\ Len(m_model.pixelPoints) = Len(m_model.worldPoints)
        /\ Len(m_model.pixelPoints) = m_model.gridSize.width * m_model.gridSize.height

\* C5: PixelToWorld with an empty pixel-to-world homography, and WorldToPixel
\* with an empty world-to-pixel homography, return an error, do not write the
\* output point and change nothing.
C5_UncalibratedTransformFails ==
    [][(\/ ret'.op = "PixelToWorld" /\ m_matHomogPixToWorld.empty
        \/ ret'.op = "WorldToPixel" /\ m_matHomogWorldToPix.empty)
         => (/\ ret'.status = GC_ERR
             /\ ptOut' = Unwritten
             /\ UNCHANGED <<calibVars, files>>)]_vars

C5_Witness ==
    /\ ret.op = "WorldToPixel" /\ ret.status = GC_ERR /\ ptOut = Unwritten
    /\ m_matHomogWorldToPix.empty /\ m_model.pixelPoints # <<>>

\* the model st is one that a successful Calibrate leaves
ProducedByCalibrate(st) ==
    Calibrate(st, st.model.pixelPoints, st.model.worldPoints, st.model.gridSize,
              st.imgSize, NoDraw) = [st |-> st, status |-> GC_OK]

\* two point lists agree within half a step of the 3-decimal encoding
PointsClose(a, b) ==
    /\ Len(a) = Len(b)
    /\ \A i \in 1..Len(a) :
          /\ 2 * Abs(a[i].x - b[i].x) <= Milli
          /\ 2 * Abs(a[i].y - b[i].y) <= Milli

\* C6: Save of a model produced by a successful Calibrate, followed by Load
\* of that file, yields the same pixel points and world points (in order,
\* within the tolerance of the 3-decimal encoding) and the same search lines.
C6_SaveLoadRoundTrip ==
    [][(/\ ret.op = "Save" /\ ret.status = GC_OK /\ ProducedByCalibrate(Cur)
        /\ ret'.op = "Load" /\ ret'.path = ret.path)
         => (/\ ret'.status = GC_OK
             /\ PointsClose(m_model'.pixelPoints, m_model.pixelPoints)
             /\ PointsClose(m_model'.worldPoints, m_model.worldPoints)
             /\ m_model'.searchLines = m_model.searchLines)]_vars

\* the tolerance of the invertibility property, in units of 1/Q
Epsilon == 2

\* PixelToWorld( WorldToPixel( p ) ) succeeds and is p within Epsilon
RoundTripsTo(p) ==
    LET a == Transform(m_matHomogWorldToPix, p)
        b == Transform(m_matHomogPixToWorld, a.out)
    IN  /\ a.status = GC_OK /\ b.status = GC_OK
        /\ Abs(b.out.x - p.x) <= Epsilon /\ Abs(b.out.y - p.y) <= Epsilon

\* C7: after a successful Calibrate, PixelToWorld( WorldToPixel( p ) ) is p
\* within a small epsilon for every pixel point p used to calibrate.
C7_Invertible ==
    (ret.op = "Calibrate" /\ ret.status = GC_OK) =>
        \A i \in 1..Len(m_model.pixelPoints) : RoundTripsTo(m_model.pixelPoints[i])

\* the file has a points list whose length is not columns x rows
CountMismatch(f) ==
    /\ f.exists /\ f.parseOK /\ {"PixelToWorld", "points"} \subseteq f.has
    /\ Len(f.points) # f.columns * f.rows

\* C8 as stated: Load of a file whose points list does not have columns x
\* rows entries returns the count-mismatch error and does not run Calibrate.
C8_CountMismatchIsError ==
    (ret.op = "Load" /\ CountMismatch(files[ret.path])) =>
        /\ ret.status = GC_ERR
        /\ ~ret.ranCalibrate

\* C8: Load of a file whose points list does not have columns x rows entries
\* fails and does not run Calibrate; when the file has every section of the
\* layout the failure is the count-mismatch error.
C8_CountMismatchFails ==
    (ret.op = "Load" /\ CountMismatch(files[ret.path])) =>
        /\ ret.status # GC_OK
        /\ ~ret.ranCalibrate
        /\ (files[ret.path].has = Sections => ret.status = GC_ERR)

C8_Witness ==
    /\ ret.op = "Load" /\ CountMismatch(files[ret.path])
    /\ files[ret.path].has = Sections /\ ret.status = GC_ERR /\ ~ret.ranCalibrate
    /\ Len(m_model.pixelPoints) = Len(files[ret.path].points)


\* C15: the model and the homographies change only in Calibrate and Load:
\* Save, ModelJsonString, PixelToWorld, WorldToPixel, MoveSearchROI and
\* MoveRefPoint leave them as they were, whatever they return.
C15_OnlyCalibrateAndLoadWrite ==
    [][ret'.op \in {"Save", "ModelJsonString", "PixelToWorld", "WorldToPixel",
                    "MoveSearchROI", "MoveRefPoint"}
            => UNCHANGED <<m_model, m_matHomogPixToWorld, m_matHomogWorldToPix>>]_vars

\* Save has failed on a calibrated object
C15_Witness ==
    /\ ret.op = "Save"
    /\ ret.status = GC_ERR
    /\ ret.path \in Unwritable
    /\ ~m_matHomogPixToWorld.empty
    /\ m_model.searchLines # <<>>


\* C16: in every state in which the homographies are present the grid of the
\* model has at least 2 columns and at least 4 rows.
C16_CalibratedGridSize ==
    (~m_matHomogPixToWorld.empty \/ ~m_matHomogWorldToPix.empty) =>
        /\ m_model.gridSize.width >= 2
        /\ m_model.gridSize.height >= 4


\* the template-sized box centered on the grid pixel point p
TemplateBox(p) ==
    Rect(cvRound(p.x) - GC_BOWTIE_TEMPLATE_DIM, cvRound(p.y) - GC_BOWTIE_TEMPLATE_DIM,
         2 * GC_BOWTIE_TEMPLATE_DIM, 2 * GC_BOWTIE_TEMPLATE_DIM)

\* r lies entirely inside an image of the given size and is not empty
InsideImage(r, imgSize) ==
    /\ r.x >= 0 /\ r.y >= 0
    /\ r.x + r.width <= imgSize.width /\ r.y + r.height <= imgSize.height
    /\ r.width > 0 /\ r.height > 0

\* r is the template-sized box centered on p, clamped to the image
ClampedBoxAt(r, p, imgSize) ==
    /\ InsideImage(r, imgSize)
    /\ InsideImage(TemplateBox(p), imgSize) => r = TemplateBox(p)

\* C17: after a successful Calibrate the left and the right move-reference
\* rectangles are the template-sized boxes centered on the first and on the
\* last grid pixel point, clamped so that they lie inside the image with a
\* positive width and height.
C17_MoveRegionsClamped ==
    (ret.op = "Calibrate" /\ ret.status = GC_OK) =>
        /\ ClampedBoxAt(m_model.moveSearchRegionLft, m_model.pixelPoints[1], m_imgSize)
        /\ ClampedBoxAt(m_model.moveSearchRegionRgt,
                        m_model.pixelPoints[Len(m_model.pixelPoints)], m_imgSize)


\* the vertical span between the first and the last grid row of the model
RowSpan == m_model.pixelPoints[m_model.gridSize.width * (m_model.gridSize.height - 1) + 1].y
            - m_model.pixelPoints[1].y

\* the top endpoints of consecutive search lines are 1 pixel apart in x
StepsOfOnePixel ==
    \A i \in 1..(Len(m_model.searchLines) - 1) :
        m_model.searchLines[i + 1].top.x - m_model.searchLines[i].top.x = 1

\* the integer y is the pixel row nearest to yRow + sign * (1.25 * RowSpan) / 8:
\* within half a pixel of it, and 1/16 of a pixel more for a band height
\* that is rounded to whole pixels
PaddedBy(y, yRow, sign) ==
    Abs(32 * (ToDouble(y) - yRow) - sign * 5 * RowSpan) <= 16 * Q + 2 * Q

\* C18: CalcSearchSwaths produces one search line per 1-pixel step in x, in a
\* band 1.25 times as high as the span between the first and the last grid
\* row and padded by 1/8 of that height: the first line's top endpoint is
\* height/8 above the first grid row, its bottom endpoint height/8 below the
\* last grid row.
C18_SwathBand ==
    (ret.op = "Calibrate" /\ ret.status = GC_OK) =>
        /\ StepsOfOnePixel
        /\ PaddedBy(m_model.searchLines[1].top.y, m_model.pixelPoints[1].y, -1)
        /\ PaddedBy(m_model.searchLines[1].bot.y, m_model.pixelPoints[1].y + RowSpan, 1)

\* C26: whenever Calibrate returns success the model has at least one search
\* line, as Save and ModelJsonString ask of it, for every point set that
\* Calibrate accepts, one whose top row does not run to the right included.
C26_CalibratedHasSearchLines ==
    (ret.op = "Calibrate" /\ ret.status = GC_OK) =>
        /\ m_model.searchLines # <<>>
        /\ ~ModelUnsavable(m_model)

\* files that differ from f in their MoveSearchRegions and SearchLines only
SameButDerived(f) ==
    {[f EXCEPT !.Left = Rect(0, 0, 24, 24), !.Right = Rect(-5, 3, 2, 40)],
     [f EXCEPT !.lines = <<>>],
     [f EXCEPT !.Left = Rect(0, 0, 24, 24),
               !.lines = <<[topX |-> 0, topY |-> 0, botX |-> 23, botY |-> 23]>>]}

\* C27: after a successful Load the search lines and the move-search regions
\* of the model are those that Calibrate derives from the loaded points and
\* the image size, not those of the file: a file with the same points and
\* image size and other SearchLines and MoveSearchRegions loads to the same
\* model.
C27_LoadDerivesLinesAndRegions ==
    [][(ret'.op = "Load" /\ ret'.status = GC_OK) =>
        LET after == CalibState(m_model', m_imgSize', m_matHomogPixToWorld',
                                m_matHomogWorldToPix')
            derived == Calibrate(Cur, m_model'.pixelPoints, m_model'.worldPoints,
                                 m_model'.gridSize, m_imgSize', NoDraw)
            SameLoad(l) == l.status = GC_OK /\ l.st = after
        IN  /\ derived.status = GC_OK
            /\ m_model'.searchLines = derived.st.model.searchLines
            /\ m_model'.moveSearchRegionLft = derived.st.model.moveSearchRegionLft
            /\ m_model'.moveSearchRegionRgt = derived.st.model.moveSearchRegionRgt
            /\ \A f \in SameButDerived(files[ret'.path]) : SameLoad(Load(Cur, f))]_vars

\* a file has been loaded whose regions and lines are not those of the model
C27_Witness ==
    /\ ret.op = "Load"
    /\ ret.status = GC_OK
    /\ files[ret.path].Left # m_model.moveSearchRegionLft
    /\ Len(files[ret.path].lines) # Len(m_model.searchLines)

-----------------------------------------------------------------------------
(* Properties of FindCalibGrid *)

\* C9: FindMoveTargets on an object whose template bank is empty returns
\* GC_ERR, calls cv::matchTemplate not once, and leaves the output points
\* and m_matchItems as they were.
C9_EmptyBankFails ==
    [][(gret'.op = "FindMoveTargets" /\ m_templates = <<>>)
        => /\ gret'.status = GC_ERR
           /\ gret'.matches = 0
           /\ ptsFound' = NoPoints
           /\ UNCHANGED gridVars]_vars

\* FindMoveTargets has failed on an image with two markers because the bank
\* is empty
C9_Witness ==
    /\ gret.op = "FindMoveTargets" /\ gret.markers = 2
    /\ m_templates = <<>>
    /\ gret.status = GC_ERR /\ gret.matches = 0
    /\ ptsFound = NoPoints

\* C10: FindMoveTargets returns GC_OK only with exactly two items in
\* m_matchItems, and then the points written are the two items' points with
\* the left x not greater than the right x; with any other number of items
\* it fails and the output points are not written.
C10_TwoTargetsOrdered ==
    gret.op = "FindMoveTargets" =>
        /\ gret.status = GC_OK =>
                /\ Len(m_matchItems) = 2
                /\ ptsFound.left.x <= ptsFound.right.x
                /\ {ptsFound.left, ptsFound.right}
                      = {m_matchItems[1].pt, m_matchItems[2].pt}
        /\ Len(m_matchItems) # 2 =>
                /\ gret.status # GC_OK
                /\ ptsFound = NoPoints

\* FindMoveTargets has succeeded where the first item found is the right one
C10_Witness ==
    /\ gret.op = "FindMoveTargets" /\ gret.status = GC_OK
    /\ Len(m_matchItems) = 2
    /\ m_matchItems[1].pt.x > m_matchItems[2].pt.x
    /\ ptsFound.left = m_matchItems[2].pt /\ ptsFound.right = m_matchItems[1].pt

\* a call of MatchTemplate with arguments in range on an object with templates
\* has returned
MatchTemplateReturned ==
    /\ gret.op = "MatchTemplate"
    /\ m_templates # <<>>
    /\ 0 <= gret.call.index /\ gret.call.index < TEMPLATE_COUNT
    /\ 5 <= gret.call.minScore /\ gret.call.minScore <= 100
    /\ 1 <= gret.call.numToFind /\ gret.call.numToFind <= 1000

\* C11: with arguments in range, MatchTemplate records at most numToFind
\* candidates, each with a score of at least minScore, and it returns an
\* error exactly when it recorded none.
C11_MatchTemplateContract ==
    MatchTemplateReturned =>
        /\ Len(m_matchItems) <= gret.call.numToFind
        /\ \A i \in 1..Len(m_matchItems) : m_matchItems[i].score >= gret.call.minScore
        /\ (gret.status # GC_OK) <=> (m_matchItems = <<>>)

\* MatchTemplate has failed on an image with markers whose scores are all
\* below minScore
C11_Witness ==
    /\ MatchTemplateReturned
    /\ gret.call.img.markers # {}
    /\ \A mk \in gret.call.img.markers :
            ScoreOf(mk, gret.call.index) < gret.call.minScore
    /\ gret.status = GC_ERR
    /\ m_matchItems = <<>>

\* C12: SetMoveTargetROI with a rectangle that does not lie inside the image
\* returns an error and leaves both move-search rectangles as they were; with
\* a rectangle inside the image it replaces the selected rectangle and leaves
\* the other one as it was.
C12_ROISetterKeepsRects ==
    [][gret'.op = "SetMoveTargetROI" =>
          IF \/ gret'.rect.x < 0 \/ gret'.rect.y < 0
             \/ gret'.rect.x + gret'.rect.width > ROIImage.cols
             \/ gret'.rect.y + gret'.rect.height > ROIImage.rows
          THEN /\ gret'.status # GC_OK
               /\ UNCHANGED <<m_rectLeftMoveSearch, m_rectRightMoveSearch>>
          ELSE /\ gret'.isLeft =>
                    /\ m_rectLeftMoveSearch' = gret'.rect
                    /\ UNCHANGED m_rectRightMoveSearch
               /\ ~gret'.isLeft =>
                    /\ m_rectRightMoveSearch' = gret'.rect
                    /\ UNCHANGED m_rectLeftMoveSearch]_vars

\* C13: InitBowtieTemplate rejects a template dimension below 20 or above
\* 1000 with an error and leaves the template bank and the correlation
\* buffers as they were; a dimension in the range gives templates of that
\* dimension, rounded up to the next even number when it is odd.
C13_TemplateDimRange ==
    [][gret'.op = "InitBowtieTemplate" =>
          IF gret'.templateDim < 20 \/ gret'.templateDim > 1000
          THEN /\ gret'.status # GC_OK
               /\ UNCHANGED <<m_templates, m_matchSpace, m_matchSpaceSmall>>
          ELSE /\ m_templates' # <<>>
               /\ \A k \in 1..Len(m_templates') :
                    /\ m_templates'[k].dim % 2 = 0
                    /\ m_templates'[k].dim \in {gret'.templateDim, gret'.templateDim + 1}]_vars

\* a bank that is ready has stayed ready, with its templates, through a call
\* of InitBowtieTemplate that rejected the dimension
C13_Witness ==
    /\ gret.op = "InitBowtieTemplate"
    /\ gret.templateDim \in {19, 1001}
    /\ gret.status = GC_ERR
    /\ m_templates # <<>>
    /\ m_templates[1].dim = 22
    /\ m_matchSpaceSmall = Size(12, 12)

\* C14: after InitBowtieTemplate has succeeded the bank holds TEMPLATE_COUNT
\* templates, each index was written once and none outside of the bank, and
\* the template at index k shows the bowtie rotated by k - TEMPLATE_COUNT/2
\* steps: unrotated at the center, the angles symmetric about zero.
C14_BankLayout ==
    (gret.op = "InitBowtieTemplate" /\ gret.status = GC_OK) =>
        /\ Len(m_templates) = TEMPLATE_COUNT
        /\ gret.outside = 0
        /\ \A k \in 0..(TEMPLATE_COUNT - 1) :
                /\ Len(m_templates[k + 1].angles) = 1
                /\ m_templates[k + 1].angles[1] = k - (TEMPLATE_COUNT \div 2)
                /\ Len(m_templates[TEMPLATE_COUNT - k].angles) = 1
                /\ m_templates[TEMPLATE_COUNT - k].angles[1] = -m_templates[k + 1].angles[1]

\* InitBowtieTemplate has succeeded and has replaced the bank
C14_Witness ==
    /\ gret.op = "InitBowtieTemplate"
    /\ gret.status = GC_OK
    /\ gret.templateDim = 21
    /\ Len(m_templates) = TEMPLATE_COUNT
    /\ m_templates[1].dim = 22
    /\ m_templates[(TEMPLATE_COUNT \div 2) + 1].angles = <<0>>

\* C19: each iteration of the extraction in MatchTemplate takes the global
\* maximum of the score map and records it if it is within the image bounds
\* and its score is at least minScore; once a maximum is rejected, no later
\* candidate is recorded in that call.
C19_RejectionStops ==
    MatchTemplateReturned =>
        /\ \A i \in 1..Len(gret.steps) :
                gret.steps[i].recorded <=>
                    /\ gret.steps[i].inside
                    /\ gret.steps[i].mx.val >= gret.call.minScore
        /\ \A i, j \in 1..Len(gret.steps) :
                (i < j /\ ~gret.steps[i].recorded) => ~gret.steps[j].recorded

\* the square of the distance between two positions of the score map
Dist2(a, b) == (a.x - b.x) * (a.x - b.x) + (a.y - b.y) * (a.y - b.y)

C21_RefineOnlyImproves ==
    gret.op = "MatchRefine" =>
        \/ gret.item = gret.before
        \/ /\ gret.status = GC_OK
           /\ gret.item.score > gret.before.score

\* MatchRefine has replaced a candidate by a better one
C21_Witness ==
    /\ gret.op = "MatchRefine"
    /\ gret.status = GC_OK
    /\ gret.item.score > gret.before.score
    /\ gret.item.pt # gret.before.pt

\* values of minScore in the range that MatchRefine accepts, in percent
AcceptedMinScores == {5, 10, 50, 100}

\* C28: for every minScore that MatchRefine accepts (0.05 to 1.0), the status
\* and the candidate's resulting score and position do not depend on
\* minScore: a call that differs only in minScore has the same result.
C28_RefineIgnoresMinScore ==
    [][(/\ gret'.op = "MatchRefine"
        /\ m_templates # <<>>
        /\ 0 <= gret'.call.index /\ gret'.call.index < TEMPLATE_COUNT
        /\ 5 <= gret'.call.minScore /\ gret'.call.minScore <= 100
        /\ 1 <= gret'.call.numToFind /\ gret'.call.numToFind <= 1000)
         => \A ms \in AcceptedMinScores :
                LET Same(r) == r.status = gret'.status /\ r.item = gret'.item
                IN  Same(MatchRefine(CurGrid, gret'.call.index, gret'.call.img, ms,
                                     gret'.call.numToFind, gret'.before))]_vars

\* a local peak below minScore has replaced the candidate
C28_Witness ==
    /\ gret.op = "MatchRefine"
    /\ gret.status = GC_OK
    /\ gret.item # gret.before
    /\ gret.item.score < gret.call.minScore

\* the marker of the image whose best match is at the point of an item
MarkerAt(item, img, dim) ==
    {mk \in img.markers :
        /\ item.pt.x = ToDouble(mk.x) + (dim * Q) \div 2
        /\ item.pt.y = ToDouble(mk.y) + (dim * Q) \div 2}

\* the best score of a marker over the templates of the bank
BestOverRotations(mk) ==
    SetMax({ScoreOf(mk, j) : j \in 0..(TEMPLATE_COUNT - 1)})

\* C22: whenever FindTargets returns success, every candidate of the coarse
\* match has been refined with every rotation and carries the highest score
\* over all of them; no refinement has failed, and no candidate has been
\* dropped or left unrefined.
C22_RefinementNotMasked ==
    (gret.op = "FindTargets" /\ gret.status = GC_OK) =>
        /\ gret.refineStatus = GC_OK
        /\ Len(gret.refined) = Len(gret.coarse)
        /\ \A i \in 1..Len(gret.refined) :
            \E mk \in MarkerAt(gret.refined[i], gret.call.img, TemplateDim(CurGrid)) :
                gret.refined[i].score = BestOverRotations(mk)

\* the candidates that SortPoints was handed and did not keep
Discarded ==
    {gret.refined[i] : i \in 1..Len(gret.refined)}
        \ {m_matchItems[k] : k \in 1..Len(m_matchItems)}

\* C23: SortPoints keeps the rows x columns candidates with the highest
\* scores: no candidate that it discards has a strictly higher score than one
\* that it keeps.
C23_KeepsHighestScores ==
    (gret.op = "FindTargets" /\ gret.sortStatus = GC_OK) =>
        \A d \in Discarded : \A k \in 1..Len(m_matchItems) :
            d.score <= m_matchItems[k].score

\* the items of the item array
ArrayItems(array) ==
    {array[i][j] : i \in 1..Len(array), j \in 1..CALIB_POINT_COL_COUNT}

\* the item array is a grid in row-major order
RowMajor(array) ==
    /\ Len(array) = CALIB_POINT_ROW_COUNT
    /\ \A i \in 1..Len(array) : Len(array[i]) = CALIB_POINT_COL_COUNT
    /\ \A i \in 1..Len(array) : \A j \in 1..(CALIB_POINT_COL_COUNT - 1) :
            array[i][j].pt.x <= array[i][j + 1].pt.x
    /\ \A i \in 1..(Len(array) - 1) : \A j, k \in 1..CALIB_POINT_COL_COUNT :
            array[i][j].pt.y <= array[i + 1][k].pt.y

\* C24: after a successful SortPoints the item array is a permutation of the
\* kept candidates in row-major order: CALIB_POINT_ROW_COUNT rows of
\* CALIB_POINT_COL_COUNT items, x not decreasing within a row, no item of a
\* row below an item of the next row.  SortPoints with fewer candidates than
\* rows x columns fails and leaves the match items and the item array as they
\* were.
C24_RowMajorArray ==
    [][(gret'.op = "FindTargets" /\ gret'.coarse # <<>>) =>
        IF gret'.sortStatus = GC_OK
        THEN /\ RowMajor(m_itemArray')
             /\ ArrayItems(m_itemArray') = {m_matchItems'[k] : k \in 1..Len(m_matchItems')}
             /\ Cardinality(ArrayItems(m_itemArray'))
                    = CALIB_POINT_ROW_COUNT * CALIB_POINT_COL_COUNT
             /\ Len(m_matchItems') = CALIB_POINT_ROW_COUNT * CALIB_POINT_COL_COUNT
             /\ ArrayItems(m_itemArray')
                    \subseteq {gret'.refined[k] : k \in 1..Len(gret'.refined)}
        ELSE /\ Len(gret'.refined) < CALIB_POINT_ROW_COUNT * CALIB_POINT_COL_COUNT
             /\ m_matchItems' = gret'.refined
             /\ m_itemArray' = m_itemArray]_vars

\* SortPoints has put a row in order whose right item came first by y
C24_Witness ==
    /\ gret.op = "FindTargets"
    /\ gret.sortStatus = GC_OK
    /\ \E k \in 1..(Len(m_matchItems) - 1) :
        /\ m_matchItems[k].pt.x > m_matchItems[k + 1].pt.x
        /\ m_itemArray[(k + 1) \div 2] = <<m_matchItems[k + 1], m_matchItems[k]>>

\* a call of SortPoints that failed and kept an item array of an earlier call
C24_WitnessFailure ==
    /\ gret.op = "FindTargets"
    /\ gret.coarse # <<>>
    /\ gret.sortStatus = GC_ERR
    /\ m_itemArray # <<>>

\* C25: FindTargets returns an error without running any template match
\* whenever the template bank is empty or the image is empty, for every
\* minScore, one in [0.01, 1.0] included.
C25_NotReadyNoMatch ==
    [][(gret'.op = "FindTargets" /\ (m_templates = <<>> \/ gret'.call.img.empty)) =>
        /\ gret'.status \in {GC_ERR, GC_EXCEPT}
        /\ gret'.matches = 0]_vars

\* the point of an item lies in a rectangle
HoldsItem(rect, item) ==
    /\ ToDouble(rect.x) <= item.pt.x /\ item.pt.x < ToDouble(rect.x + rect.width)
    /\ ToDouble(rect.y) <= item.pt.y /\ item.pt.y < ToDouble(rect.y + rect.height)

\* C29: after a successful SortPoints both move-search rectangles have a
\* positive width and height, lie inside the search image, and hold the top
\* left and the top right corner marker.
C29_MoveRectsUsable ==
    (gret.op = "FindTargets" /\ gret.sortStatus = GC_OK) =>
        /\ m_rectLeftMoveSearch.width > 0 /\ m_rectLeftMoveSearch.height > 0
        /\ m_rectRightMoveSearch.width > 0 /\ m_rectRightMoveSearch.height > 0
        /\ RectInImage(m_rectLeftMoveSearch, gret.call.img)
        /\ RectInImage(m_rectRightMoveSearch, gret.call.img)
        /\ HoldsItem(m_rectLeftMoveSearch, m_itemArray[1][1])
        /\ HoldsItem(m_rectRightMoveSearch, m_itemArray[1][CALIB_POINT_COL_COUNT])

\* C30: the template bank becomes ready (a template list that is not empty,
\* which FindMoveTargets and FindTargets accept) only through a call of
\* InitBowtieTemplate that returns success: a call that returns a failure or
\* an exception status does not leave a bank that was empty ready.
C30_ReadyOnlyBySuccess ==
    [][(m_templates = <<>> /\ m_templates' # <<>>) =>
        /\ gret'.op = "InitBowtieTemplate"
        /\ gret'.status = GC_OK]_vars

=============================================================================
